---------------------------- MODULE Spec2Model ----------------------------
(***************************************************************************)
(* Connector registry, rate limiters and connector operations of the       *)
(* connector backend (src/app.py, src/extractors/connectors/*.py).         *)
(*                                                                         *)
(* Four groups of state and nine specifications:                           *)
(*   SpecRegistry   - the registry lookup get_connector (app.py)           *)
(*   SpecLimiter    - handle_rate_limits of one live connector instance    *)
(*   SpecWindow     - one Salesforce instance through a whole window       *)
(*   SpecInstances  - handle_rate_limits of two live instances of a class  *)
(*   SpecConnector  - authenticate / validate_connection / fetch_* /       *)
(*                    list_objects of one connector instance               *)
(*   SpecTokens     - the token operations of one Salesforce or HubSpot    *)
(*                    instance, with a record of its earlier calls         *)
(*   SpecNormalizer - the schema fields and records the connectors build   *)
(*                    from the vendor's field descriptors and rows         *)
(*   SpecQuery      - the SOQL query SalesforceConnector.fetch_data sends  *)
(*   SpecTransport  - the operations of one instance request by request,   *)
(*                    the vendor answering each request or not             *)
(* A specification leaves the other groups' variables untouched.           *)
(*                                                                         *)
(* Strings that the code inspects character by character (the vendor id)   *)
(* are sequences of one-character strings.  Time is counted in ticks of    *)
(* 10 ms, so 0.1 s is 10 ticks and 100 s is 10000 ticks.                   *)
(***************************************************************************)
EXTENDS Integers, Sequences, FiniteSets, TLC

VARIABLES
    CONNECTORS_AVAILABLE,   \* app.py:28/32, set once by the import block
    lookup,                 \* the last get_connector call: its argument and outcome
    now,                    \* the clock (datetime.now()), in ticks of 10 ms
    inst,                   \* the live connector instances' limiter fields
    hist,                   \* per instance: what its handle_rate_limits calls did
    conn,                   \* one connector instance: its auth fields
    last,                   \* the last operation called on conn and its outcome
    past,                   \* what the earlier calls on conn did to its tokens
    built                   \* the last schema field or record built from vendor data

registryVars == <<CONNECTORS_AVAILABLE, lookup>>
limiterVars == <<now, inst, hist>>
connectorVars == <<conn, last, past>>
normalizerVars == <<built>>
vars == <<CONNECTORS_AVAILABLE, lookup, now, inst, hist, conn, last, past, built>>

None == "None"

(***************************************************************************)
(* Registry (src/app.py)                                                   *)
(***************************************************************************)
UpperChars == <<"A","B","C","D","E","F","G","H","I","J","K","L","M",
                "N","O","P","Q","R","S","T","U","V","W","X","Y","Z">>
LowerChars == <<"a","b","c","d","e","f","g","h","i","j","k","l","m",
                "n","o","p","q","r","s","t","u","v","w","x","y","z">>

\* str.lower() on one character.  "KELVIN" stands for U+212A, the one
\* non-ASCII character whose lower case is an ASCII letter (k).
LowerChar(c) ==
    IF \E i \in 1..26 : UpperChars[i] = c
    THEN LowerChars[CHOOSE i \in 1..26 : UpperChars[i] = c]
    ELSE IF c = "KELVIN" THEN "k" ELSE c

UpperChar(c) ==
    IF \E i \in 1..26 : LowerChars[i] = c
    THEN UpperChars[CHOOSE i \in 1..26 : LowerChars[i] = c]
    ELSE c

\* connector_type.lower()
Lower(s) == [i \in 1..Len(s) |-> LowerChar(s[i])]

K_salesforce    == <<"s","a","l","e","s","f","o","r","c","e">>
K_google_ads    == <<"g","o","o","g","l","e","_","a","d","s">>
K_ga4           == <<"g","a","4">>
K_meta_ads      == <<"m","e","t","a","_","a","d","s">>
K_google_sheets == <<"g","o","o","g","l","e","_","s","h","e","e","t","s">>
K_hubspot       == <<"h","u","b","s","p","o","t">>

\* The dict literal of app.py:50-57 (the classes the import block binds).
RegistryLiteral ==
    {<<K_salesforce, "SalesforceConnector">>,
     <<K_google_ads, "GoogleAdsConnector">>,
     <<K_ga4, "GA4Connector">>,
     <<K_meta_ads, "MetaAdsConnector">>,
     <<K_google_sheets, "GoogleSheetsConnector">>,
     <<K_hubspot, "HubspotConnector">>}

\* CONNECTOR_REGISTRY: the literal if the imports succeeded, else {}.
CONNECTOR_REGISTRY(available) == IF available THEN RegistryLiteral ELSE {}

RegistryKeys(available) == {e[1] : e \in CONNECTOR_REGISTRY(available)}

\* dict.get(key): the class, or None.
RegistryGet(available, key) ==
    IF key \in RegistryKeys(available)
    THEN (CHOOSE e \in CONNECTOR_REGISTRY(available) : e[1] = key)[2]
    ELSE None

MsgUnavailable == "Connector registry is not available due to import errors."
MsgUnsupported == "Unsupported connector type"

Returned(v) == [raised |-> FALSE, exc |-> None, msg |-> None, value |-> v]
Raised(e, m) == [raised |-> TRUE, exc |-> e, msg |-> m, value |-> None]

\* get_connector looking the key up as it is written.
get_connector_case_sensitive(available, connector_type) ==
    IF ~available THEN Raised("ValueError", MsgUnavailable)
    ELSE IF RegistryGet(available, connector_type) = None
         THEN Raised("ValueError", MsgUnsupported)
         ELSE Returned(RegistryGet(available, connector_type))

\* get_connector without the test of CONNECTORS_AVAILABLE.
get_connector_no_flag(available, connector_type) ==
    LET connector_class == RegistryGet(available, Lower(connector_type))
    IN  IF connector_class = None
        THEN Raised("ValueError", MsgUnsupported)
        ELSE Returned(connector_class)

\* get_connector (app.py:60-69)
get_connector(available, connector_type) ==
    IF ~available THEN Raised("ValueError", MsgUnavailable)
    ELSE LET connector_class == RegistryGet(available, Lower(connector_type))
         IN  IF connector_class = None
             THEN Raised("ValueError", MsgUnsupported)
             ELSE Returned(connector_class)

\* ---- inputs of the registry specification ----
LetterPositions(s) == {i \in 1..Len(s) : UpperChar(s[i]) # s[i]}

\* At most this many letters of a looked-up id are upper case (or all are).
MaxUpper == 2

\* The spellings of s with the letters at positions `up` in upper case.
Spelling(s, up) == [i \in 1..Len(s) |-> IF i \in up THEN UpperChar(s[i]) ELSE s[i]]

\* Spellings of s in a mix of upper and lower case.
CaseVariants(s) ==
    {Spelling(s, up) : up \in {u \in SUBSET LetterPositions(s) :
                                  Cardinality(u) <= MaxUpper \/ u = LetterPositions(s)}}

RegisteredIds == {e[1] : e \in RegistryLiteral}

\* Strings that are no spelling of a registered id: near misses.
OtherStrings ==
    {<< >>,
     <<"s","a","l","e","s","f","o","r","c">>,
     <<"s","a","l","e","s","f","o","r","c","e"," ">>,
     <<" ","h","u","b","s","p","o","t">>,
     <<"G","A">>, <<"g","a","4","4">>, <<"G","A","-","4">>,
     <<"m","e","t","a">>, <<"M","E","T","A","-","A","D","S">>,
     <<"g","o","o","g","l","e","a","d","s">>,
     <<"g","o","o","g","l","e","_","s","h","e","e","t">>,
     <<"G","o","o","g","l","e">>,
     <<"h","u","b","s","p","o","t","s">>,
     <<"KELVIN","a","f","k","a">>,
     <<"s","h","e","e","t","s">>}

LookupInputs == (UNION {CaseVariants(k) : k \in RegisteredIds}) \cup OtherStrings

NoLookup == [connector_type |-> << >>, done |-> FALSE, result |-> Returned(None)]

\* One call get_connector(connector_type) by a route of app.py.
Lookup ==
    \E s \in LookupInputs :
        /\ lookup' = [connector_type |-> s, done |-> TRUE,
                      result |-> get_connector(CONNECTORS_AVAILABLE, s)]
        /\ UNCHANGED CONNECTORS_AVAILABLE


(***************************************************************************)
(* Rate limiters: handle_rate_limits of the five connectors in src/        *)
(***************************************************************************)
Kinds == {"salesforce", "hubspot", "google_ads", "ga4", "google_sheets"}

\* self.last_request_time = None
NoTime == -1

\* Program constants, in ticks of 10 ms.
SalesforceBudget == 100          \* request_count >= 100
SalesforceWindowSleep == 500     \* time.sleep(5)
SalesforceMinInterval == 10      \* 0.1 s
HubspotSleep == 11               \* time.sleep(0.11)
GoogleMinInterval == 10          \* setdefault('min_request_interval', 0.1)
SheetsMinInterval == 100         \* setdefault('min_request_interval', 1.0)
SheetsWindowSleep == 10000       \* time.sleep(100)
SheetsBudget == 100              \* setdefault('requests_per_100_seconds', 100)
GA4TokensPerHour == 250          \* setdefault('tokens_per_hour', 250)
GoogleAdsOperationsPerDay == 15000 \* setdefault('operations_per_day', 15000)

\* Bounds of the limiter specifications.
MaxCalls == 4          \* calls of the instance of SpecLimiter
MaxCallsEach == 2      \* calls of each instance of SpecInstances
ShortDelay == 1        \* a call arrives at once, or after a short or long delay
LongDelay == 12
MaxOvershoot == 1      \* time.sleep may return this much late
CustomInterval == 3    \* a caller-given min_request_interval
MaxBudget == 2         \* caller-given window budgets are 1..MaxBudget

Instances == {"A", "B"}
Delays == {0, ShortDelay, LongDelay}

DefaultMinInterval(kind) ==
    IF kind = "google_sheets" THEN SheetsMinInterval ELSE GoogleMinInterval

DefaultBudget(kind) ==
    CASE kind = "google_sheets" -> SheetsBudget
      [] kind = "ga4"           -> GA4TokensPerHour
      [] kind = "google_ads"    -> GoogleAdsOperationsPerDay
      [] OTHER                  -> SalesforceBudget

\* rate_limit_config after __init__: the caller's values, else the defaults
\* of setdefault.  window_budget is requests_per_100_seconds (Sheets),
\* tokens_per_hour (GA4), operations_per_day (Google Ads).  Salesforce and
\* HubSpot read nothing from it.
ConfigsOf(kind) ==
    IF kind \in {"salesforce", "hubspot"}
    THEN {[min_request_interval |-> SalesforceMinInterval,
           window_budget |-> SalesforceBudget]}
    ELSE [min_request_interval : {DefaultMinInterval(kind), CustomInterval},
          window_budget : (1..MaxBudget) \cup {DefaultBudget(kind)}]

\* The connectors whose configuration or code names a per-window budget.
HasBudget(kind) == kind \in {"salesforce", "google_sheets", "ga4", "google_ads"}

BudgetOf(i) ==
    IF inst[i].kind = "salesforce" THEN SalesforceBudget
    ELSE inst[i].cfg.window_budget

MinIntervalOf(i) ==
    CASE inst[i].kind = "salesforce" -> SalesforceMinInterval
      [] inst[i].kind = "hubspot"    -> HubspotSleep
      [] OTHER                       -> inst[i].cfg.min_request_interval

\* The limiter fields __init__ sets: last_request_time = None, request_count = 0.
NewLimiter == [last_request_time |-> NoTime, request_count |-> 0]

\* "if self.last_request_time: elapsed = ...; if elapsed < m: sleep(m - elapsed)"
SpacingSleep(lim, m, t) ==
    IF lim.last_request_time # NoTime /\ t - lim.last_request_time < m
    THEN m - (t - lim.last_request_time)
    ELSE 0

\* The seconds handle_rate_limits sleeps for the minimum spacing, entered at t.
HrlSpacingSleep(kind, cfg, lim, t) ==
    CASE kind = "salesforce" ->
            IF lim.request_count >= SalesforceBudget THEN 0
            ELSE SpacingSleep(lim, SalesforceMinInterval, t)
      [] kind = "hubspot" -> HubspotSleep
      [] OTHER -> SpacingSleep(lim, cfg.min_request_interval, t)

\* The seconds handle_rate_limits sleeps because the call counter reached the
\* budget, entered at t.
HrlBudgetSleep(kind, cfg, lim, t) ==
    CASE kind = "salesforce" ->
            IF lim.request_count >= SalesforceBudget THEN SalesforceWindowSleep ELSE 0
      [] kind = "google_sheets" ->
            IF lim.request_count + 1 >= cfg.window_budget THEN SheetsWindowSleep ELSE 0
      [] OTHER -> 0

\* The limiter fields when the Salesforce call that sleeps for the window
\* counts itself like any other call.
HrlNext_counts_itself(kind, cfg, lim, t, t2) ==
    CASE kind = "salesforce" ->
            IF lim.request_count >= SalesforceBudget
            THEN [last_request_time |-> t2, request_count |-> 1]
            ELSE [last_request_time |-> t2, request_count |-> lim.request_count + 1]
      [] kind = "hubspot" -> lim
      [] kind = "google_sheets" ->
            [last_request_time |-> t,
             request_count |-> IF lim.request_count + 1 >= cfg.window_budget
                               THEN 0 ELSE lim.request_count + 1]
      [] OTHER ->
            [last_request_time |-> t, request_count |-> lim.request_count + 1]

\* The limiter fields after a handle_rate_limits call entered at t whose
\* sleeps ended at t2.
HrlNext(kind, cfg, lim, t, t2) ==
    CASE kind = "salesforce" ->
            IF lim.request_count >= SalesforceBudget
            THEN [lim EXCEPT !.request_count = 0]
            ELSE [last_request_time |-> t2, request_count |-> lim.request_count + 1]
      [] kind = "hubspot" -> lim
      [] kind = "google_sheets" ->
            [last_request_time |-> t,
             request_count |-> IF lim.request_count + 1 >= cfg.window_budget
                               THEN 0 ELSE lim.request_count + 1]
      [] OTHER ->
            [last_request_time |-> t, request_count |-> lim.request_count + 1]


\* ---- the instances and their calls ----
Absent == [kind |-> "none",
           cfg |-> [min_request_interval |-> 0, window_budget |-> 0],
           lim |-> NewLimiter, pc |-> "idle", entered |-> NoTime,
           wake |-> NoTime, by_budget |-> FALSE, left |-> 0]

\* An instance right after __init__, allowed `calls` handle_rate_limits calls.
Constructed(kind, cfg, calls) ==
    [kind |-> kind, cfg |-> cfg, lim |-> NewLimiter, pc |-> "idle",
     entered |-> NoTime, wake |-> NoTime, by_budget |-> FALSE, left |-> calls]

\* What is recorded about an instance's calls: the instants its last two
\* calls returned, the position of the last call in its window (a window
\* starts at construction and after every budget sleep), whether that call
\* slept for the budget, and the limiter fields and wake-up instant the
\* instance would have if it were the only instance of the process.
NoHistory == [prev_release |-> NoTime, last_release |-> NoTime,
              nth |-> 0, blocked |-> FALSE, window_calls |-> 0,
              solo |-> NewLimiter, solo_wake |-> NoTime]

\* The limiter fields kept as class attributes, shared by all instances.
StoreLimiter_shared(instances, i, lim) ==
    [j \in DOMAIN instances |->
        IF instances[j].kind = "none" THEN instances[j]
        ELSE [instances[j] EXCEPT !.lim = lim]]

\* self.last_request_time = ..., self.request_count = ...: attributes of
\* the instance (set on self in __init__).
StoreLimiter(instances, i, lim) == [instances EXCEPT ![i].lim = lim]

\* The call of instance i entered at t returns at t2.
Complete(i, t, t2, by_budget, left) ==
    LET me == inst[i]
        n  == hist[i].window_calls + 1
    IN  /\ inst' = StoreLimiter(
                      [inst EXCEPT ![i].pc = "idle", ![i].left = left,
                                   ![i].by_budget = by_budget],
                      i, HrlNext(me.kind, me.cfg, me.lim, t, t2))
        /\ hist' = [hist EXCEPT ![i] =
                      [prev_release |-> hist[i].last_release,
                       last_release |-> t2,
                       nth |-> n,
                       blocked |-> by_budget,
                       window_calls |-> IF by_budget THEN 0 ELSE n,
                       solo |-> HrlNext(me.kind, me.cfg, hist[i].solo, t, t2),
                       solo_wake |-> hist[i].solo_wake]]

\* Instance i calls handle_rate_limits, d ticks after the last event: it
\* computes its sleeps and either returns at once or blocks in time.sleep.
Enter(i, d) ==
    LET me      == inst[i]
        t       == now + d
        spacing == HrlSpacingSleep(me.kind, me.cfg, me.lim, t)
        budget  == HrlBudgetSleep(me.kind, me.cfg, me.lim, t)
        solo_s  == HrlSpacingSleep(me.kind, me.cfg, hist[i].solo, t)
                   + HrlBudgetSleep(me.kind, me.cfg, hist[i].solo, t)
    IN  /\ me.kind # "none"
        /\ me.pc = "idle"
        /\ me.left > 0
        /\ now' = t
        /\ IF spacing + budget = 0
           THEN Complete(i, t, t, FALSE, me.left - 1)
           ELSE /\ inst' = [inst EXCEPT ![i].pc = "sleeping",
                                        ![i].entered = t,
                                        ![i].wake = t + spacing + budget,
                                        ![i].by_budget = (budget > 0),
                                        ![i].left = me.left - 1]
                /\ hist' = [hist EXCEPT ![i].solo_wake = t + solo_s]

Max(a, b) == IF a >= b THEN a ELSE b

\* time.sleep of instance i is over: it slept as long as asked, or up to
\* `over` ticks longer, or until now if the clock has passed its wake-up.
Return(i, over) ==
    LET t2 == Max(now, inst[i].wake + over)
    IN  /\ inst[i].pc = "sleeping"
        /\ now' = t2
        /\ Complete(i, inst[i].entered, t2, inst[i].by_budget, inst[i].left)

(***************************************************************************)
(* Connector operations                                                    *)
(*                                                                         *)
(* An operation runs against the vendor's answers: the k-th request it     *)
(* sends is answered by ans[k].  An answer is one of                       *)
(*   "ok"           200 (or a returned API call), optional members absent  *)
(*   "ok_extra"     200, optional members present: nextRecordsUrl,         *)
(*                  paging.next, a rotated refresh_token                   *)
(*   "unauthorized" 401                                                    *)
(*   "error"        another non-success status                             *)
(*   "exception"    the transport or client library raises (timeout, ...)  *)
(*   "malformed"    200 with a body the code cannot read: reading it raises*)
(* A schema, listing or metadata request is read inside the try block     *)
(* that sends it: a malformed answer to it is its "exception".             *)
(* Reading past the end of ans gives "starved": the run is then cut off    *)
(* and taken up again with a longer ans.  handle_rate_limits appears in    *)
(* the trace of an operation as the event "hrl"; what it does to the clock *)
(* and the limiter fields is the subject of the limiter specifications.    *)
(***************************************************************************)
MaxRequests == 9       \* an operation is followed for this many requests
MaxPageRecords == 2    \* records on a page of a paged answer
MaxObjects == 2        \* objects the vendor lists for list_objects

AnswersFor(ev) ==
    CASE ev = "probe"        -> {"ok", "unauthorized", "error", "exception"}
      [] ev = "build_client" -> {"ok", "exception"}
      [] ev \in {"auth", "exchange"} -> {"ok", "error", "exception", "malformed"}
      [] ev = "refresh"      -> {"ok", "ok_extra", "error", "exception", "malformed"}
      [] ev \in {"query", "page", "search"}
                             -> {"ok", "ok_extra", "error", "exception", "malformed"}
      [] OTHER               -> {"ok", "error", "exception"}

\* Events that send nothing to the vendor.
Local(ev) == ev \in {"hrl", "build_client"}
\* Events that read an answer.
Answered(ev) == ev # "hrl"

\* The run so far: the instance, the answers read, the events.
\* sent lists the refresh tokens the refresh requests carried, logged holds
\* the tokens and client secrets that self.logger has written out in full.
Start(c) ==
    [conn |-> c, used |-> 0, trace |-> << >>, sent |-> << >>, logged |-> {},
     calls |-> [authenticate |-> 0, validate_connection |-> 0]]
Ans(ans, r) == IF r.used < Len(ans) THEN ans[r.used + 1] ELSE "starved"
Request(r, ev) == [r EXCEPT !.trace = Append(@, ev), !.used = @ + 1]
Emit(r, ev) == [r EXCEPT !.trace = Append(@, ev)]
\* The refresh request: its payload carries self.refresh_token.
RequestRefresh(r) ==
    [Request(r, "refresh") EXCEPT !.sent = Append(@, r.conn.refresh_token)]
\* self.logger.info(f"... {data}") where data holds the values of secrets.
LogInfo(r, secrets) == [r EXCEPT !.logged = @ \cup secrets]
\* The method fn is entered, by the caller or by another method.
Entered(r, fn) == [r EXCEPT !.calls[fn] = @ + 1]

\* Python values an operation returns, as far as the claims look at them.
VNone == [kind |-> "none", truth |-> FALSE, rows |-> << >>, keys |-> {}, objs |-> {}]
VBool(b) == [VNone EXCEPT !.kind = "bool", !.truth = b]
VList(rows) == [VNone EXCEPT !.kind = "list", !.truth = (rows # << >>), !.rows = rows]
VDict(keys) == [VNone EXCEPT !.kind = "dict", !.truth = (keys # {}), !.keys = keys]
\* The result of list_objects: its top-level keys and the objects described.
VSchemas(keys, objs) ==
    [VNone EXCEPT !.kind = "dict", !.truth = (keys # {}), !.keys = keys, !.objs = objs]

Res(r, v) == [r |-> r, v |-> v, exc |-> None]
Exc(r, e) == [r |-> r, v |-> VNone, exc |-> e]

\* The exception a failed request raises (raise_for_status, the transport,
\* response.json() or a missing key).
ExcOf(a) ==
    CASE a \in {"unauthorized", "error"} -> "HTTPError"
      [] a = "malformed"                 -> "ValueError"
      [] OTHER                           -> "RequestException"

\* The access token the vendor issues is never the one the instance holds.
NextAccess(tok) == IF tok = "at1" THEN "at2" ELSE "at1"
\* The refresh token of an answer that carries one: a token the vendor has
\* not issued before or, once it has issued "rt2", that token again.
NextRefresh(tok) ==
    CASE tok \in {None, "rt0"} -> "rt1"
      [] OTHER                 -> "rt2"

\* The names of the objects the vendor lists.
ObjectNames == <<"Account", "Contact", "Lead", "Opportunity">>
ObjectName(i) == ObjectNames[i]
ObjectsListed(m) == {ObjectName(i) : i \in 1..m}

\* The n records of page p of an answer, as the vendor gives them: meta is
\* the set of metadata keys a record carries.
PageRecords(p, n) == [i \in 1..n |-> [page |-> p, idx |-> i, meta |-> {}]]
\* record['_...'] = ... for every record.
WithMeta(rows, keys) == [i \in 1..Len(rows) |-> [rows[i] EXCEPT !.meta = @ \cup keys]]
MetaKeys_ga4 == {"_report_type", "_property_id", "_extracted_at"}
MetaKeys_gads == {"_customer_id", "_extracted_at"}
MetaKeys_gs == {"_row_number", "_sheet_name", "_spreadsheet_id", "_extracted_at"}

TokenKeys == {"access_token", "instance_url"}

(***************************************************************************)
(* SalesforceConnector                                                     *)
(***************************************************************************)
\* The password grant reporting success without keeping the token.
PasswordGrant_sf_forgets(r, ans) ==
    Res(Request(r, "auth"), VBool(Ans(ans, r) = "ok"))

\* The password grant of authenticate: the body of its try block for
\* auth_type "password".  Every failure is caught and gives False.
PasswordGrant_sf(r, ans) ==
    LET a  == Ans(ans, r)
        r1 == Request(r, "auth")
        t  == NextAccess(r.conn.access_token)
    IN  IF a = "ok"
        THEN Res([r1 EXCEPT !.conn.access_token = t, !.conn.header = t,
                            !.conn.instance_url = "url1"], VBool(TRUE))
        ELSE Res(r1, VBool(FALSE))

\* refresh_access_token without its check of self.refresh_token: the request
\* is sent with whatever the instance holds.
refresh_access_token_sf_unguarded(r, ans) ==
    LET a  == Ans(ans, r)
        r1 == RequestRefresh(r)
        t  == NextAccess(r.conn.access_token)
        r2 == [r1 EXCEPT !.conn.access_token = t, !.conn.header = t]
    IN  CASE a = "ok" -> Res(r2, VDict(TokenKeys))
          [] a = "ok_extra" ->
               Res([r2 EXCEPT !.conn.refresh_token = NextRefresh(@)],
                   VDict(TokenKeys \cup {"refresh_token"}))
          [] OTHER -> Exc(r1, ExcOf(a))

refresh_access_token_sf(r, ans) ==
    IF r.conn.refresh_token = None THEN Exc(r, "Exception")
    ELSE LET a  == Ans(ans, r)
             r1 == RequestRefresh(r)
             t  == NextAccess(r.conn.access_token)
             r2 == [r1 EXCEPT !.conn.access_token = t, !.conn.header = t]
         IN  CASE a = "ok" -> Res(r2, VDict(TokenKeys))
               [] a = "ok_extra" ->
                    Res([r2 EXCEPT !.conn.refresh_token = NextRefresh(@)],
                        VDict(TokenKeys \cup {"refresh_token"}))
               [] OTHER -> Exc(r1, ExcOf(a))

\* Where validate_connection calls self.authenticate() the auth_type is
\* 'password', so the call is the password grant.
validate_connection_sf(r, ans) ==
    LET r0 == Entered(r, "validate_connection")
    IN  IF r.conn.access_token = None
        THEN IF r.conn.auth_type = "password"
             THEN PasswordGrant_sf(Entered(r0, "authenticate"), ans)
             ELSE Res(r0, VBool(FALSE))
        ELSE LET a  == Ans(ans, r0)
                 r1 == Request(r0, "probe")
             IN  CASE a = "ok" -> Res(r1, VBool(TRUE))
                   [] a = "unauthorized" ->
                        IF r.conn.auth_type = "token"
                        THEN LET x == refresh_access_token_sf(r1, ans)
                             IN  IF x.exc # None THEN Res(x.r, VBool(FALSE)) ELSE x
                        ELSE IF r.conn.auth_type = "password"
                             THEN PasswordGrant_sf(Entered(r1, "authenticate"), ans)
                             ELSE Res(r1, VBool(FALSE))
                   [] OTHER -> Res(r1, VBool(FALSE))

authenticate_sf(r, ans) ==
    LET r0 == Entered(r, "authenticate")
    IN  IF r.conn.auth_type # "password" THEN validate_connection_sf(r0, ans)
        ELSE PasswordGrant_sf(r0, ans)

\* The payload is logged without its client_secret; the answer, the token
\* set, is logged whole before it is returned.
exchange_code_for_tokens_sf(r, ans) ==
    LET a  == Ans(ans, r)
        r1 == Request(r, "exchange")
        issued == {NextAccess(r.conn.access_token), NextRefresh(r.conn.refresh_token)}
    IN  IF a = "ok"
        THEN Res(LogInfo(r1, issued), VDict(TokenKeys \cup {"refresh_token"}))
        ELSE Exc(r1, ExcOf(a))

\* The while loop of fetch_data over nextRecordsUrl: p is the page asked for.
RECURSIVE Pages_sf(_, _, _, _, _)
\* The loop giving up the records it holds when a page is refused.
Pages_sf_discards(r, ans, records, p, n) ==
    LET a  == Ans(ans, Emit(r, "hrl"))
        r1 == Request(Emit(r, "hrl"), "page")
    IN  CASE a = "ok"       -> Res(r1, VList(records \o PageRecords(p, n)))
          [] a = "ok_extra" -> Pages_sf(r1, ans, records \o PageRecords(p, n), p + 1, n)
          [] OTHER          -> Res(r1, VList(<< >>))

\* The loop assigning the page to records where the code extends records.
Pages_sf_overwrite(r, ans, records, p, n) ==
    LET a  == Ans(ans, Emit(r, "hrl"))
        r1 == Request(Emit(r, "hrl"), "page")
    IN  CASE a = "ok"       -> Res(r1, VList(PageRecords(p, n)))
          [] a = "ok_extra" -> Pages_sf(r1, ans, PageRecords(p, n), p + 1, n)
          [] a \in {"unauthorized", "error"} -> Res(r1, VList(records))
          [] OTHER          -> Res(r1, VList(<< >>))

Pages_sf(r, ans, records, p, n) ==
    LET a  == Ans(ans, Emit(r, "hrl"))
        r1 == Request(Emit(r, "hrl"), "page")
    IN  CASE a = "ok"       -> Res(r1, VList(records \o PageRecords(p, n)))
          [] a = "ok_extra" -> Pages_sf(r1, ans, records \o PageRecords(p, n), p + 1, n)
          [] a \in {"unauthorized", "error"} -> Res(r1, VList(records))
          [] OTHER          -> Res(r1, VList(<< >>))

\* fetch_data going to the query without asking validate_connection.
fetch_data_sf_unvalidated(r, in, ans) ==
    LET a  == Ans(ans, r)
        r1 == Request(Emit(r, "hrl"), "query")
    IN  IF a \in {"ok", "ok_extra"} THEN Res(r1, VList(PageRecords(1, in.n)))
        ELSE Res(r1, VList(<< >>))

\* in.selector is "raw" for a complete query and "object" for an object
\* name; in.params is "bad" for a query_params whose 'fields' cannot be
\* joined.  The query is assembled before the try block.
fetch_data_sf(r, in, ans) ==
    LET v == validate_connection_sf(r, ans)
    IN  IF ~v.v.truth THEN Res(v.r, VList(<< >>))
        ELSE IF in.selector = "object" /\ in.params = "bad" THEN Exc(v.r, "TypeError")
        ELSE LET a  == Ans(ans, v.r)
                 r1 == Request(Emit(v.r, "hrl"), "query")
             IN  CASE a = "ok"       -> Res(r1, VList(PageRecords(1, in.n)))
                   [] a = "ok_extra" -> Pages_sf(r1, ans, PageRecords(1, in.n), 2, in.n)
                   [] OTHER          -> Res(r1, VList(<< >>))

SchemaKeys_sf == {"name", "label", "fields", "timestamp"}

fetch_schema_sf(r, ans) ==
    LET v == validate_connection_sf(r, ans)
    IN  IF ~v.v.truth THEN Res(v.r, VDict({}))
        ELSE LET a  == Ans(ans, v.r)
                 r1 == Request(Emit(v.r, "hrl"), "describe")
             IN  IF a = "ok" THEN Res(r1, VDict(SchemaKeys_sf))
                 ELSE Res(r1, VDict({}))

\* The for loop of list_objects: object i of m is described, objs are the
\* objects described so far.
RECURSIVE Describe_sf(_, _, _, _, _)
\* The for loop giving up the whole discovery at the first object whose
\* schema could not be fetched.
Describe_sf_aborts(r, ans, i, m, objs) ==
    IF i > m THEN Res(r, VSchemas({"salesforce"}, objs))
    ELSE LET x == fetch_schema_sf(r, ans)
         IN  IF x.v.truth THEN Describe_sf(x.r, ans, i + 1, m, objs \cup {ObjectName(i)})
             ELSE Res(x.r, VDict({}))

Describe_sf(r, ans, i, m, objs) ==
    IF i > m THEN Res(r, VSchemas({"salesforce"}, objs))
    ELSE LET x == fetch_schema_sf(r, ans)
         IN  Describe_sf(x.r, ans, i + 1, m, IF x.v.truth THEN objs \cup {ObjectName(i)} ELSE objs)

\* list_objects without its except clauses: a failed listing raises.
list_objects_sf_unguarded(r, in, ans) ==
    LET v == validate_connection_sf(r, ans)
    IN  IF ~v.v.truth THEN Res(v.r, VDict({}))
        ELSE LET a  == Ans(ans, v.r)
                 r1 == Request(Emit(v.r, "hrl"), "list")
             IN  IF a = "ok" THEN Describe_sf(r1, ans, 1, in.objects, {})
                 ELSE Exc(r1, ExcOf(a))

list_objects_sf(r, in, ans) ==
    LET v == validate_connection_sf(r, ans)
    IN  IF ~v.v.truth THEN Res(v.r, VDict({}))
        ELSE LET a  == Ans(ans, v.r)
                 r1 == Request(Emit(v.r, "hrl"), "list")
             IN  IF a = "ok" THEN Describe_sf(r1, ans, 1, in.objects, {})
                 ELSE Res(r1, VDict({}))

(***************************************************************************)
(* HubSpotConnector                                                        *)
(***************************************************************************)
\* refresh_access_token keeping self.refresh_token whatever the answer holds.
refresh_access_token_hs_keeps_token(r, ans) ==
    IF r.conn.refresh_token = None THEN Res(r, VBool(FALSE))
    ELSE IF ~r.conn.client_keys THEN Exc(r, "KeyError")
    ELSE LET a  == Ans(ans, r)
             r1 == RequestRefresh(r)
             t  == NextAccess(r.conn.access_token)
             r2 == [r1 EXCEPT !.conn.access_token = t, !.conn.header = t]
         IN  CASE a \in {"ok", "ok_extra"} -> Res(r2, VBool(TRUE))
               [] a = "malformed" -> Exc(r1, "KeyError")
               [] OTHER           -> Res(r1, VBool(FALSE))

\* Raises what the request raises; a body without 'access_token' raises
\* KeyError, which the except clause for RequestException lets through, and
\* so does a credentials mapping without client_id and client_secret.
refresh_access_token_hs(r, ans) ==
    IF r.conn.refresh_token = None THEN Res(r, VBool(FALSE))
    ELSE IF ~r.conn.client_keys THEN Exc(r, "KeyError")
    ELSE LET a  == Ans(ans, r)
             r1 == RequestRefresh(r)
             t  == NextAccess(r.conn.access_token)
             r2 == [r1 EXCEPT !.conn.access_token = t, !.conn.header = t]
         IN  CASE a = "ok"        -> Res(r2, VBool(TRUE))
               [] a = "ok_extra"  ->
                    Res([r2 EXCEPT !.conn.refresh_token = NextRefresh(@)], VBool(TRUE))
               [] a = "malformed" -> Exc(r1, "KeyError")
               [] OTHER           -> Res(r1, VBool(FALSE))

\* validate_connection taking the refresh path after any failed probe.
validate_connection_hs_refreshes_always(r, ans) ==
    IF r.conn.access_token = None THEN Res(r, VBool(FALSE))
    ELSE LET a  == Ans(ans, r)
             r1 == Request(r, "probe")
             x  == refresh_access_token_hs(r1, ans)
         IN  IF a = "ok" THEN Res(r1, VBool(TRUE))
             ELSE IF x.exc # None THEN Res(x.r, VBool(FALSE)) ELSE x

\* validate_connection probing again after a refresh, and refreshing again
\* when the new token is refused too.
validate_connection_hs_retries(r, ans) ==
    LET r0 == Entered(r, "validate_connection")
    IN  IF r.conn.access_token = None THEN Res(r0, VBool(FALSE))
        ELSE LET a  == Ans(ans, r0)
                 r1 == Request(r0, "probe")
             IN  CASE a = "ok" -> Res(r1, VBool(TRUE))
                   [] a = "unauthorized" ->
                        LET x  == refresh_access_token_hs(r1, ans)
                            r2 == Request(Entered(x.r, "validate_connection"), "probe")
                            y  == refresh_access_token_hs(r2, ans)
                        IN  IF x.exc # None THEN Res(x.r, VBool(FALSE))
                            ELSE IF ~x.v.truth THEN x
                            ELSE IF Ans(ans, x.r) = "unauthorized"
                                 THEN (IF y.exc # None THEN Res(y.r, VBool(FALSE)) ELSE y)
                                 ELSE Res(r2, VBool(Ans(ans, x.r) = "ok"))
                   [] OTHER -> Res(r1, VBool(FALSE))

validate_connection_hs(r, ans) ==
    LET r0 == Entered(r, "validate_connection")
    IN  IF r.conn.access_token = None THEN Res(r0, VBool(FALSE))
        ELSE LET a  == Ans(ans, r0)
                 r1 == Request(r0, "probe")
             IN  CASE a = "ok" -> Res(r1, VBool(TRUE))
                   [] a = "unauthorized" ->
                        LET x == refresh_access_token_hs(r1, ans)
                        IN  IF x.exc # None THEN Res(x.r, VBool(FALSE)) ELSE x
                   [] OTHER -> Res(r1, VBool(FALSE))

authenticate_hs(r, ans) == validate_connection_hs(Entered(r, "authenticate"), ans)

\* Not wrapped in a try block: what the request raises reaches the caller.
exchange_code_for_tokens_hs(r, ans) ==
    IF ~r.conn.client_keys THEN Exc(r, "KeyError")
    ELSE LET a  == Ans(ans, r)
             r1 == Request(r, "exchange")
             t  == NextAccess(r.conn.access_token)
         IN  IF a = "ok"
             THEN Res([r1 EXCEPT !.conn.access_token = t, !.conn.header = t,
                                 !.conn.refresh_token = NextRefresh(@)],
                      VDict(TokenKeys \cup {"refresh_token"}))
             ELSE Exc(r1, ExcOf(a))

\* The while True loop of fetch_data: p is the page asked for.
RECURSIVE Pages_hs(_, _, _, _, _)
\* The loop handing out the pages it holds when a page fails.
Pages_hs_keeps(r, ans, all_results, p, n) ==
    LET a  == Ans(ans, Emit(r, "hrl"))
        r1 == Request(Emit(r, "hrl"), "search")
    IN  CASE a = "ok"       -> Res(r1, VList(all_results \o PageRecords(p, n)))
          [] a = "ok_extra" -> Pages_hs(r1, ans, all_results \o PageRecords(p, n), p + 1, n)
          [] OTHER          -> Res(r1, VList(all_results))

\* The loop without its handle_rate_limits call.
Pages_hs_unthrottled(r, ans, all_results, p, n) ==
    LET a  == Ans(ans, r)
        r1 == Request(r, "search")
    IN  CASE a = "ok"       -> Res(r1, VList(all_results \o PageRecords(p, n)))
          [] a = "ok_extra" -> Pages_hs(r1, ans, all_results \o PageRecords(p, n), p + 1, n)
          [] OTHER          -> Res(r1, VList(<< >>))

Pages_hs(r, ans, all_results, p, n) ==
    LET a  == Ans(ans, Emit(r, "hrl"))
        r1 == Request(Emit(r, "hrl"), "search")
    IN  CASE a = "ok"       -> Res(r1, VList(all_results \o PageRecords(p, n)))
          [] a = "ok_extra" -> Pages_hs(r1, ans, all_results \o PageRecords(p, n), p + 1, n)
          [] OTHER          -> Res(r1, VList(<< >>))

fetch_data_hs(r, in, ans) ==
    LET v == validate_connection_hs(r, ans)
    IN  IF ~v.v.truth THEN Res(v.r, VList(<< >>))
        ELSE Pages_hs(v.r, ans, << >>, 1, in.n)

SchemaKeys_hs == {"name", "labels", "primaryDisplayProperty", "properties", "timestamp"}

\* fetch_schema forgetting the access token when the schema request fails.
fetch_schema_hs_drops_token(r, ans) ==
    LET v == validate_connection_hs(r, ans)
    IN  IF ~v.v.truth THEN Res(v.r, VDict({}))
        ELSE LET a  == Ans(ans, v.r)
                 r1 == Request(Emit(v.r, "hrl"), "schema")
             IN  IF a = "ok" THEN Res(r1, VDict(SchemaKeys_hs))
                 ELSE Res([r1 EXCEPT !.conn.access_token = None, !.conn.header = None],
                          VDict({}))

fetch_schema_hs(r, ans) ==
    LET v == validate_connection_hs(r, ans)
    IN  IF ~v.v.truth THEN Res(v.r, VDict({}))
        ELSE LET a  == Ans(ans, v.r)
                 r1 == Request(Emit(v.r, "hrl"), "schema")
             IN  IF a = "ok" THEN Res(r1, VDict(SchemaKeys_hs))
                 ELSE Res(r1, VDict({}))

list_objects_hs(r, in, ans) ==
    LET v == validate_connection_hs(r, ans)
    IN  IF ~v.v.truth THEN Res(v.r, VDict({}))
        ELSE LET a  == Ans(ans, v.r)
                 r1 == Request(Emit(v.r, "hrl"), "list")
             IN  IF a = "ok" THEN Res(r1, VSchemas({"hubspot"}, ObjectsListed(in.objects)))
                 ELSE Res(r1, VDict({}))

(***************************************************************************)
(* GA4Connector, GoogleAdsConnector, GoogleSheetsConnector                 *)
(*                                                                         *)
(* authenticate builds the client object from the stored credentials.      *)
(* The Credentials object is built without an expiry, so creds.expired is  *)
(* False and the refresh branch of authenticate is never taken.  What the  *)
(* client library raises for a vendor error is an exception: every answer  *)
(* other than "ok" takes the except clause.                                *)
(***************************************************************************)
\* authenticate without its except clause: what the library raises reaches
\* the caller.
authenticate_google_uncaught(r, ans) ==
    LET a  == Ans(ans, r)
        r1 == Request(r, "build_client")
    IN  IF a = "ok" THEN Res([r1 EXCEPT !.conn.client = TRUE], VBool(TRUE))
        ELSE Exc(r1, ExcOf(a))

authenticate_google(r, ans) ==
    LET a  == Ans(ans, r)
        r1 == Request(r, "build_client")
    IN  IF a = "ok" THEN Res([r1 EXCEPT !.conn.client = TRUE], VBool(TRUE))
        ELSE Res(r1, VBool(FALSE))

\* GA4 probes with get_metadata, Google Ads with get_customer.
validate_connection_probe(r, ans) ==
    IF ~r.conn.client THEN authenticate_google(r, ans)
    ELSE LET a  == Ans(ans, r)
             r1 == Request(r, "probe")
         IN  Res(r1, VBool(a = "ok"))

\* validate_connection giving up when self.service is not set.
validate_connection_gs_no_authenticate(r, ans) == Res(r, VBool(r.conn.client))

\* Google Sheets only looks at self.service.
validate_connection_gs(r, ans) ==
    IF ~r.conn.client THEN authenticate_google(r, ans)
    ELSE Res(r, VBool(TRUE))

\* fetch_data running the standard report for a report type it does not know.
fetch_data_ga4_default_report(r, in, ans) ==
    LET v == validate_connection_probe(r, ans)
    IN  IF ~v.v.truth THEN Res(v.r, VList(<< >>))
        ELSE IF in.params = "bad"
             THEN Res(v.r, VList(<< >>))
        ELSE LET a  == Ans(ans, v.r)
                 r1 == Request(Emit(v.r, "hrl"), "query")
             IN  IF a = "ok"
                 THEN Res(r1, VList(WithMeta(PageRecords(1, in.n), MetaKeys_ga4)))
                 ELSE Res(r1, VList(<< >>))

\* GA4: the request object is built from query_params before
\* handle_rate_limits, all inside the try block of fetch_data.
fetch_data_ga4(r, in, ans) ==
    LET v == validate_connection_probe(r, ans)
    IN  IF ~v.v.truth THEN Res(v.r, VList(<< >>))
        ELSE IF in.selector = "unsupported" \/ in.params = "bad"
             THEN Res(v.r, VList(<< >>))
        ELSE LET a  == Ans(ans, v.r)
                 r1 == Request(Emit(v.r, "hrl"), "query")
             IN  IF a = "ok"
                 THEN Res(r1, VList(WithMeta(PageRecords(1, in.n), MetaKeys_ga4)))
                 ELSE Res(r1, VList(<< >>))

\* Google Ads: _fetch_* joins the fields into the query, then _execute_query
\* calls handle_rate_limits and search; GoogleAdsException is raised again
\* by _execute_query and caught by fetch_data.
fetch_data_gads(r, in, ans) ==
    LET v == validate_connection_probe(r, ans)
    IN  IF ~v.v.truth THEN Res(v.r, VList(<< >>))
        ELSE IF in.selector = "unsupported" \/ in.params = "bad"
             THEN Res(v.r, VList(<< >>))
        ELSE LET a  == Ans(ans, v.r)
                 r1 == Request(Emit(v.r, "hrl"), "query")
             IN  IF a = "ok"
                 THEN Res(r1, VList(WithMeta(PageRecords(1, in.n), MetaKeys_gads)))
                 ELSE Res(r1, VList(<< >>))

\* Google Sheets: the spreadsheet metadata, then the values.
fetch_data_gs(r, in, ans) ==
    LET v == validate_connection_gs(r, ans)
    IN  IF ~v.v.truth THEN Res(v.r, VList(<< >>))
        ELSE LET a  == Ans(ans, v.r)
                 r1 == Request(Emit(v.r, "hrl"), "metadata")
             IN  IF a # "ok" THEN Res(r1, VList(<< >>))
                 ELSE LET b  == Ans(ans, r1)
                          r2 == Request(Emit(r1, "hrl"), "values")
                      IN  IF b = "ok"
                          THEN Res(r2, VList(WithMeta(PageRecords(1, in.n), MetaKeys_gs)))
                          ELSE Res(r2, VList(<< >>))

SchemaKeys_ga4 == {"property_id", "dimensions", "metrics", "timestamp"}
SchemaKeys_gads == {"object_type", "customer_id", "schema", "timestamp"}
SchemaKeys_gs == {"spreadsheet_id", "spreadsheet_title", "sheet_name", "sheet_id",
                  "row_count", "column_count", "headers", "fields", "timestamp"}

\* fetch_schema going on to the request whatever validate_connection said.
fetch_schema_ga4_unchecked(r, ans) ==
    LET v  == validate_connection_probe(r, ans)
        a  == Ans(ans, v.r)
        r1 == Request(Emit(v.r, "hrl"), "schema")
    IN  IF a = "ok" THEN Res(r1, VDict(SchemaKeys_ga4))
        ELSE Res(r1, VDict({}))

fetch_schema_ga4(r, ans) ==
    LET v == validate_connection_probe(r, ans)
    IN  IF ~v.v.truth THEN Res(v.r, VDict({}))
        ELSE LET a  == Ans(ans, v.r)
                 r1 == Request(Emit(v.r, "hrl"), "schema")
             IN  IF a = "ok" THEN Res(r1, VDict(SchemaKeys_ga4))
                 ELSE Res(r1, VDict({}))

\* Google Ads answers from a table in the code: no validation, no request.
fetch_schema_gads(r, ans) == Res(r, VDict(SchemaKeys_gads))

fetch_schema_gs(r, ans) ==
    LET v == validate_connection_gs(r, ans)
    IN  IF ~v.v.truth THEN Res(v.r, VDict({}))
        ELSE LET a  == Ans(ans, v.r)
                 r1 == Request(Emit(v.r, "hrl"), "metadata")
             IN  IF a # "ok" THEN Res(r1, VDict({}))
                 ELSE LET b  == Ans(ans, r1)
                          r2 == Request(Emit(r1, "hrl"), "values")
                      IN  IF b = "ok" THEN Res(r2, VDict(SchemaKeys_gs))
                          ELSE Res(r2, VDict({}))

(***************************************************************************)
(* The operations of an instance, by class                                 *)
(***************************************************************************)
\* GA4Connector, GoogleAdsConnector and GoogleSheetsConnector define no
\* list_objects; a call goes to BaseAPIConnector, which is not part of the
\* sources and is taken to keep the contract: a mapping from object names
\* to fields.
list_objects_base(r, in, ans) ==
    Res(r, VSchemas(ObjectsListed(in.objects), ObjectsListed(in.objects)))

Operations == {"authenticate", "validate_connection", "refresh_access_token",
               "exchange_code_for_tokens", "fetch_data", "fetch_schema",
               "list_objects"}

\* The methods a class defines or, for list_objects, is called with by
\* get_schema.
Defines(kind, op) ==
    op \in {"refresh_access_token", "exchange_code_for_tokens"}
        => kind \in {"salesforce", "hubspot"}

validate_connection(r, ans) ==
    CASE r.conn.kind = "salesforce"    -> validate_connection_sf(r, ans)
      [] r.conn.kind = "hubspot"       -> validate_connection_hs(r, ans)
      [] r.conn.kind = "google_sheets" -> validate_connection_gs(r, ans)
      [] OTHER                         -> validate_connection_probe(r, ans)

authenticate(r, ans) ==
    CASE r.conn.kind = "salesforce" -> authenticate_sf(r, ans)
      [] r.conn.kind = "hubspot"    -> authenticate_hs(r, ans)
      [] OTHER                      -> authenticate_google(r, ans)

refresh_access_token(r, ans) ==
    IF r.conn.kind = "salesforce" THEN refresh_access_token_sf(r, ans)
    ELSE refresh_access_token_hs(r, ans)

exchange_code_for_tokens(r, ans) ==
    IF r.conn.kind = "salesforce" THEN exchange_code_for_tokens_sf(r, ans)
    ELSE exchange_code_for_tokens_hs(r, ans)

fetch_data(r, in, ans) ==
    CASE r.conn.kind = "salesforce"    -> fetch_data_sf(r, in, ans)
      [] r.conn.kind = "hubspot"       -> fetch_data_hs(r, in, ans)
      [] r.conn.kind = "ga4"           -> fetch_data_ga4(r, in, ans)
      [] r.conn.kind = "google_ads"    -> fetch_data_gads(r, in, ans)
      [] r.conn.kind = "google_sheets" -> fetch_data_gs(r, in, ans)

fetch_schema(r, ans) ==
    CASE r.conn.kind = "salesforce"    -> fetch_schema_sf(r, ans)
      [] r.conn.kind = "hubspot"       -> fetch_schema_hs(r, ans)
      [] r.conn.kind = "ga4"           -> fetch_schema_ga4(r, ans)
      [] r.conn.kind = "google_ads"    -> fetch_schema_gads(r, ans)
      [] r.conn.kind = "google_sheets" -> fetch_schema_gs(r, ans)

list_objects(r, in, ans) ==
    CASE r.conn.kind = "salesforce" -> list_objects_sf(r, in, ans)
      [] r.conn.kind = "hubspot"    -> list_objects_hs(r, in, ans)
      [] OTHER                      -> list_objects_base(r, in, ans)

Run(op, c, in, ans) ==
    CASE op = "authenticate"             -> authenticate(Start(c), ans)
      [] op = "validate_connection"      -> validate_connection(Start(c), ans)
      [] op = "refresh_access_token"     -> refresh_access_token(Start(c), ans)
      [] op = "exchange_code_for_tokens" -> exchange_code_for_tokens(Start(c), ans)
      [] op = "fetch_data"               -> fetch_data(Start(c), in, ans)
      [] op = "fetch_schema"             -> fetch_schema(Start(c), ans)
      [] op = "list_objects"             -> list_objects(Start(c), in, ans)

\* What the caller and the vendor saw of a finished call.
Outcome(op, c, in, ans, x) ==
    [op |-> op, in |-> in, pre |-> c, ans |-> ans, conn |-> x.r.conn,
     status |-> IF x.exc = None THEN "returned" ELSE "raised",
     exc |-> x.exc, v |-> x.v, trace |-> x.r.trace, sent |-> x.r.sent,
     logged |-> x.r.logged, calls |-> x.r.calls]

IsRefresh(ev) == ev = "refresh"

\* The events up to the k-th request.
RECURSIVE UpToRequest(_, _)
UpToRequest(trace, k) ==
    IF trace = << >> \/ k = 0 THEN << >>
    ELSE <<Head(trace)>> \o
         UpToRequest(Tail(trace), IF Answered(Head(trace)) THEN k - 1 ELSE k)

\* A call that has sent its MaxRequests-th request and is going to send
\* another one.
Unfinished(op, c, in, ans, x) ==
    [op |-> op, in |-> in, pre |-> c, ans |-> ans, conn |-> x.r.conn,
     status |-> "unfinished", exc |-> None, v |-> VNone,
     trace |-> UpToRequest(x.r.trace, Len(ans)),
     sent |-> SubSeq(x.r.sent, 1,
                     Len(SelectSeq(UpToRequest(x.r.trace, Len(ans)), IsRefresh))),
     logged |-> x.r.logged, calls |-> x.r.calls]

\* A call that has sent a request and is blocked reading its answer:
\* session.get and session.post are called without a timeout argument and
\* return only when the vendor has answered or the connection has failed.
Waiting(op, c, in, ans, x) ==
    [op |-> op, in |-> in, pre |-> c, ans |-> ans, conn |-> c,
     status |-> "waiting", exc |-> None, v |-> VNone,
     trace |-> UpToRequest(x.r.trace, Len(ans) + 1),
     sent |-> SubSeq(x.r.sent, 1,
                     Len(SelectSeq(UpToRequest(x.r.trace, Len(ans) + 1), IsRefresh))),
     logged |-> x.r.logged, calls |-> x.r.calls]

\* The request a waiting call is blocked in.
PendingRequest(o) ==
    LET answered == SelectSeq(o.trace, Answered) IN answered[Len(answered)]

\* Every way the call can go: the answers are extended by one for as long
\* as the call reads past them.
RECURSIVE Outcomes(_, _, _, _)
Outcomes(op, c, in, ans) ==
    LET x == Run(op, c, in, ans)
    IN  IF x.r.used <= Len(ans) THEN {Outcome(op, c, in, ans, x)}
        ELSE IF Len(ans) >= MaxRequests THEN {Unfinished(op, c, in, ans, x)}
        ELSE LET ev == SelectSeq(x.r.trace, Answered)[Len(ans) + 1]
             IN  UNION {Outcomes(op, c, in, Append(ans, a)) : a \in AnswersFor(ev)}

(***************************************************************************)
(* A connector instance and the calls made on it                           *)
(***************************************************************************)
\* The instance after __init__.  header is the access token the session's
\* Authorization header carries, client says whether self.client (or
\* self.service) is set, client_keys whether the credentials hold client_id
\* and client_secret.  instance_url is the Salesforce instance the requests
\* go to: the one of the credentials of an instance built with an access
\* token.
NewConnector(kind, auth_type, access_token, refresh_token, client_keys) ==
    [kind |-> kind, auth_type |-> auth_type, access_token |-> access_token,
     refresh_token |-> refresh_token, header |-> access_token, client |-> FALSE,
     client_keys |-> client_keys,
     instance_url |-> IF kind = "salesforce" /\ access_token # None
                      THEN "url0" ELSE None]

\* f'Bearer {self.access_token}' when self.access_token is None.
NoneAsText == "str(None)"

\* SalesforceConnector.__init__ for credentials whose key access_token is
\* there with the value None: the key alone decides that auth_type is
\* 'token' and that the header is set.
NewConnector_sf_null_token(refresh_token) ==
    [NewConnector("salesforce", "token", None, refresh_token, TRUE)
        EXCEPT !.header = NoneAsText, !.instance_url = "url0"]

InitialConnectors ==
    {NewConnector("salesforce", "token", "at0", rt, TRUE) : rt \in {"rt0", None}}
    \cup {NewConnector_sf_null_token(rt) : rt \in {"rt0", None}}
    \cup {NewConnector("salesforce", a, None, None, TRUE) :
             a \in {"password", "unauthenticated"}}
    \cup {NewConnector("hubspot", "oauth", t[1], t[2], k) :
             t \in {<<"at0", "rt0">>, <<"at0", None>>, <<None, None>>}, k \in BOOLEAN}
    \cup {NewConnector(kind, "oauth", "at0", rt, TRUE) :
             kind \in {"ga4", "google_ads", "google_sheets"}, rt \in {"rt0", None}}

NoInput == [selector |-> "none", params |-> "none", n |-> 0, objects |-> 0]
FetchInputs ==
    {[NoInput EXCEPT !.selector = s, !.params = p, !.n = n] :
        s \in {"raw", "object", "unsupported"}, p \in {"good", "bad"},
        n \in 1..MaxPageRecords}
ListInputs == {[NoInput EXCEPT !.objects = m] : m \in 0..MaxObjects}

NoOutcome == [op |-> None]

\* Nothing has been called on the instance yet: no refresh of it has
\* failed, none of its refresh tokens has been replaced.
NoPast == [failed_refresh |-> FALSE, retired |-> {}]

\* One call of op on the instance, from entry to return, raise or cut-off.
Call(op, inputs) ==
    /\ last = NoOutcome
    /\ Defines(conn.kind, op)
    /\ \E in \in inputs : \E o \in Outcomes(op, conn, in, << >>) :
          /\ conn' = o.conn
          /\ last' = o
    /\ UNCHANGED <<registryVars, limiterVars, past, normalizerVars>>

Authenticate == Call("authenticate", {NoInput})
ValidateConnection == Call("validate_connection", {NoInput})
RefreshAccessToken == Call("refresh_access_token", {NoInput})
ExchangeCodeForTokens == Call("exchange_code_for_tokens", {NoInput})
FetchData == Call("fetch_data", FetchInputs)
FetchSchema == Call("fetch_schema", {NoInput})
ListObjects == Call("list_objects", ListInputs)

\* The caller takes the result; the instance is ready for its next call.
ReturnResult ==
    /\ last # NoOutcome
    /\ last' = NoOutcome
    /\ UNCHANGED <<conn, past, registryVars, limiterVars, normalizerVars>>

\* The refresh requests of a finished call: the token each one carried and
\* the answer it got.
RefreshPairs(o) ==
    LET answered == SelectSeq(o.trace, Answered)
        idx == {k \in 1..Len(answered) : answered[k] = "refresh"}
    IN  {<<o.sent[Cardinality({i \in idx : i <= k})], o.ans[k]>> : k \in idx}

\* A refresh attempt of the call failed: the refresh endpoint did not answer
\* with tokens, or the instance had no refresh token when refresh_access_token
\* was called, by the caller or by validate_connection after a 401.
RefreshFailedIn(o) ==
    \/ \E pr \in RefreshPairs(o) : pr[2] \notin {"ok", "ok_extra"}
    \/ /\ o.pre.refresh_token = None
       /\ \/ o.op = "refresh_access_token"
          \/ /\ o.pre.kind = "hubspot" \/ o.pre.auth_type = "token"
             /\ LET answered == SelectSeq(o.trace, Answered)
                IN  \E k \in 1..Len(answered) :
                       answered[k] = "probe" /\ o.ans[k] = "unauthorized"

\* The refresh tokens the call replaced by other ones.
RetiredIn(o) ==
    ({pr[1] : pr \in {q \in RefreshPairs(o) : q[2] = "ok_extra"}}
     \cup (IF o.op = "exchange_code_for_tokens" /\ o.pre.kind = "hubspot"
              /\ o.status = "returned"
           THEN {o.pre.refresh_token} ELSE {}))
    \ {None, o.conn.refresh_token}

\* The caller takes the result; what the call did to the tokens is kept.
ReturnTracked ==
    /\ last # NoOutcome
    /\ past' = [failed_refresh |-> past.failed_refresh \/ RefreshFailedIn(last),
                retired |-> past.retired \cup RetiredIn(last)]
    /\ last' = NoOutcome
    /\ UNCHANGED <<conn, registryVars, limiterVars, normalizerVars>>

(***************************************************************************)
(* Schema fields and records built from vendor data                        *)
(*                                                                         *)
(* A Python mapping is a function on its keys.  A vendor descriptor is a   *)
(* record of the keys the code reads; a key the vendor left out has the    *)
(* value Missing.  A value of a record is "vendor" when it is what the     *)
(* vendor sent for that name and "metadata" when the connector wrote it.   *)
(***************************************************************************)
Missing == "<missing>"

\* The type names the vendors use, and the flag a vendor can put on a
\* field: nillable (Salesforce) or its absence.
VendorTypes_sf == {"string", "int", "double", "currency", "date", "boolean"}
VendorTypes_hs == {"string", "number", "datetime", "enumeration", "bool", Missing}
VendorTypes_ga4 == {"TYPE_INTEGER", "TYPE_FLOAT", "TYPE_CURRENCY"}
VendorFlags == {"True", "False", Missing}
FieldNames == {"amount", "name"}

\* d.get(key, default)
Get(d, key, default) == IF d[key] = Missing THEN default ELSE d[key]

\* rec[k] = val for every k of keys, in a mapping rec.
AssignAll(rec, keys, val) ==
    [k \in (DOMAIN rec) \cup keys |-> IF k \in keys THEN val ELSE rec[k]]
\* del rec[key]
Delete(rec, key) == [k \in (DOMAIN rec) \ {key} |-> rec[k]]
EmptyDict == << >>

\* SalesforceConnector.fetch_schema: field_info[field['name']].
fetch_schema_field_sf(field) ==
    [type |-> field.type, label |-> field.label,
     length |-> Get(field, "length", None),
     nillable |-> Get(field, "nillable", "True"),
     createable |-> "False", updateable |-> "False"]

\* SalesforceConnector.list_objects: the entry appended to fields_list for
\* an item of object_schema['fields'].
list_objects_field_sf(field_name, field_details) ==
    [columnName |-> field_name,
     dataType |-> IF "type" \in DOMAIN field_details THEN field_details.type
                  ELSE "string"]

\* HubspotConnector.fetch_schema: field_info[prop['name']].
fetch_schema_field_hs(prop) ==
    [type |-> Get(prop, "type", None), label |-> prop.label,
     fieldType |-> Get(prop, "fieldType", None)]

\* HubspotConnector.list_objects: the entry appended to fields_list.
list_objects_field_hs(prop) ==
    [columnName |-> prop.name, dataType |-> Get(prop, "type", "string")]

\* GoogleSheetsConnector._number_to_column_letter for the first columns.
ColumnLetters == <<"A", "B", "C">>

\* GoogleSheetsConnector.fetch_schema: schema['fields'][header].
fetch_schema_field_gs(i, header) ==
    [column_index |-> i, column_letter |-> ColumnLetters[i + 1],
     type |-> "string", nullable |-> "True"]

\* GoogleAdsConnector.fetch_schema: the entries of its table.
SchemaTable_gads ==
    {[type |-> t, description |-> "text"] : t \in {"integer", "string", "date", "number"}}

\* GA4Connector.fetch_schema: schema['metrics'][metric.api_name].
fetch_schema_field_ga4(metric) ==
    [display_name |-> metric.ui_name, description |-> "text",
     type |-> metric.type, category |-> "text", deprecated |-> "False"]

\* The vendor's descriptors.
Fields_sf ==
    {[name |-> n, type |-> t, label |-> "text", length |-> Missing, nillable |-> f] :
        n \in FieldNames, t \in VendorTypes_sf, f \in VendorFlags}
Props_hs ==
    {[name |-> n, type |-> t, label |-> "text", fieldType |-> "text"] :
        n \in FieldNames, t \in VendorTypes_hs}
Metrics_ga4 ==
    {[api_name |-> n, ui_name |-> "text", type |-> t] :
        n \in FieldNames, t \in VendorTypes_ga4}

FieldBuilt(kind, op, in, out) ==
    [what |-> "field", kind |-> kind, op |-> op, in |-> in, out |-> out]

\* Every schema field a fetch_schema or list_objects can hand out.
FieldsBuilt ==
    {FieldBuilt("salesforce", "fetch_schema", f, fetch_schema_field_sf(f)) :
        f \in Fields_sf}
    \cup {FieldBuilt("salesforce", "list_objects", f,
                     list_objects_field_sf(f.name, fetch_schema_field_sf(f))) :
             f \in Fields_sf}
    \cup {FieldBuilt("hubspot", "fetch_schema", p, fetch_schema_field_hs(p)) :
             p \in Props_hs}
    \cup {FieldBuilt("hubspot", "list_objects", p, list_objects_field_hs(p)) :
             p \in Props_hs}
    \cup {FieldBuilt("google_sheets", "fetch_schema", [name |-> n, index |-> i],
                     fetch_schema_field_gs(i, n)) :
             n \in FieldNames, i \in 0..1}
    \cup {FieldBuilt("google_ads", "fetch_schema", e, e) : e \in SchemaTable_gads}
    \cup {FieldBuilt("ga4", "fetch_schema", m, fetch_schema_field_ga4(m)) :
             m \in Metrics_ga4}

\* The column, property or dimension names a vendor can use.
VendorNames == {"name", "amount", "id", "_row_number", "_extracted_at"}
\* field_name.startswith('_')
StartsWithUnderscore(n) == n \in {"_row_number", "_extracted_at"}
MetricNames == {"amount"}

\* SalesforceConnector.fetch_data: the vendor's record without 'attributes'.
Record_sf(fields) ==
    Delete(AssignAll(AssignAll(EmptyDict, {"attributes"}, "vendor"), fields, "vendor"),
           "attributes")

\* HubspotConnector.fetch_data: flat_item.
Record_hs(properties) ==
    AssignAll(AssignAll(EmptyDict, properties, "vendor"), {"id"}, "metadata")

\* GA4Connector._convert_report_to_records: record.
Record_ga4(dimension_headers, metric_headers) ==
    AssignAll(AssignAll(AssignAll(EmptyDict, dimension_headers, "vendor"),
                        metric_headers, "vendor"),
              MetaKeys_ga4, "metadata")

\* GoogleAdsConnector._convert_row_to_dict, then _execute_query.
Record_gads(field_names) ==
    AssignAll(AssignAll(EmptyDict, {n \in field_names : ~StartsWithUnderscore(n)},
                        "vendor"),
              MetaKeys_gads, "metadata")

\* GoogleSheetsConnector.fetch_data: record.
Record_gs(headers) ==
    AssignAll(AssignAll(EmptyDict, headers, "vendor"), MetaKeys_gs, "metadata")

RecordBuilt(kind, in, out) ==
    [what |-> "record", kind |-> kind, op |-> "fetch_data", in |-> in, out |-> out]

\* Every record a fetch_data can hand out, for the sets of names the vendor
\* can use.
RecordsBuilt ==
    UNION {{RecordBuilt("salesforce", cols, Record_sf(cols)),
            RecordBuilt("hubspot", cols, Record_hs(cols)),
            RecordBuilt("ga4", cols,
                        Record_ga4(cols \ MetricNames, cols \cap MetricNames)),
            RecordBuilt("google_ads", cols, Record_gads(cols)),
            RecordBuilt("google_sheets", cols, Record_gs(cols))} :
           cols \in SUBSET VendorNames}

NoBuilt == [what |-> "nothing"]

\* A fetch_schema or list_objects normalizes one vendor field.
NormalizeField ==
    /\ \E b \in FieldsBuilt : built' = b
    /\ UNCHANGED <<registryVars, limiterVars, connectorVars>>

\* A fetch_data builds one record.
BuildRecord ==
    /\ \E b \in RecordsBuilt : built' = b
    /\ UNCHANGED <<registryVars, limiterVars, connectorVars>>

\* GA4Connector: the report behind each report type.  A report of n rows
\* becomes n records, each labelled by _convert_report_to_records with the
\* type its caller passes.
ReportTypes == {"standard", "realtime", "cohort", "pivot"}

convert_report_to_records(n, report_type) ==
    [i \in 1..n |-> [row |-> i, _report_type |-> report_type,
                     _property_id |-> "property"]]

fetch_standard_report(n) == convert_report_to_records(n, "standard")
fetch_realtime_report(n) == convert_report_to_records(n, "realtime")
\* "using standard report"
fetch_cohort_report(n) == fetch_standard_report(n)
fetch_pivot_report(n) == fetch_standard_report(n)

\* The if/elif chain of fetch_data.
fetch_report_ga4(report_type, n) ==
    IF report_type = "standard" THEN fetch_standard_report(n)
    ELSE IF report_type = "realtime" THEN fetch_realtime_report(n)
    ELSE IF report_type = "cohort" THEN fetch_cohort_report(n)
    ELSE IF report_type = "pivot" THEN fetch_pivot_report(n)
    ELSE << >>

\* GA4 fetch_data turns the vendor's report into records.
ConvertReport ==
    /\ \E t \in ReportTypes \cup {"unsupported"} : \E n \in 0..MaxPageRecords :
          built' = [what |-> "report", kind |-> "ga4", op |-> "fetch_data",
                    in |-> [report_type |-> t, n |-> n],
                    out |-> fetch_report_ga4(t, n)]
    /\ UNCHANGED <<registryVars, limiterVars, connectorVars>>

(***************************************************************************)
(* The SOQL query of SalesforceConnector.fetch_data                        *)
(*                                                                         *)
(* Text is a sequence of one-character strings, + on strings is \o.        *)
(* query_params is a record with the set of its keys and their values.     *)
(***************************************************************************)
\* sub in s
Contains(s, sub) ==
    \E i \in 0..(Len(s) - Len(sub)) : SubSeq(s, i + 1, i + Len(sub)) = sub

\* sep.join(parts)
RECURSIVE Join(_, _)
Join(sep, parts) ==
    IF parts = << >> THEN << >>
    ELSE IF Len(parts) = 1 THEN parts[1]
    ELSE parts[1] \o sep \o Join(sep, Tail(parts))

T_select == <<"s","e","l","e","c","t">>
T_from == <<"f","r","o","m">>
T_SELECT == <<"S","E","L","E","C","T"," ">>
T_FROM == <<" ","F","R","O","M"," ">>
T_WHERE == <<" ","W","H","E","R","E"," ">>
T_ORDER_BY == <<" ","O","R","D","E","R"," ","B","Y"," ">>
T_LIMIT == <<"L","I","M","I","T"," ">>
T_space == <<" ">>
T_comma == <<","," ">>
T_2000 == <<"2","0","0","0">>

\* fields = query_params.get('fields', [...])
DefaultFields == <<<<"I","d">>, <<"N","a","m","e">>, <<"C","r","e","a","t","e","d","D","a","t","e">>, <<"L","a","s","t","M","o","d","i","f","i","e","d","D","a","t","e">>>>

\* query_params.get(key, default)
ParamGet(query_params, key, default) ==
    IF key \in query_params.keys THEN query_params[key] ELSE default

\* The query sent when the two keywords are looked for as they are spelt.
BuildQuery_sf_case_sensitive(query_or_object_name, query_params) ==
    IF /\ Contains(query_or_object_name, T_select)
       /\ Contains(query_or_object_name, T_from)
    THEN query_or_object_name
    ELSE LET fields       == ParamGet(query_params, "fields", DefaultFields)
             where_clause == ParamGet(query_params, "where", << >>)
             limit_clause == IF "limit" \in query_params.keys
                             THEN T_LIMIT \o ParamGet(query_params, "limit", T_2000)
                             ELSE << >>
             order_by     == ParamGet(query_params, "order_by", << >>)
             q0 == T_SELECT \o Join(T_comma, fields) \o T_FROM \o query_or_object_name
             q1 == IF where_clause # << >> THEN q0 \o T_WHERE \o where_clause ELSE q0
             q2 == IF order_by # << >> THEN q1 \o T_ORDER_BY \o order_by ELSE q1
         IN  IF limit_clause # << >> THEN q2 \o T_space \o limit_clause ELSE q2

\* The query sent: query_or_object_name itself, or the one assembled from
\* the object name and query_params.
BuildQuery_sf(query_or_object_name, query_params) ==
    IF /\ Contains(Lower(query_or_object_name), T_select)
       /\ Contains(Lower(query_or_object_name), T_from)
    THEN query_or_object_name
    ELSE LET fields       == ParamGet(query_params, "fields", DefaultFields)
             where_clause == ParamGet(query_params, "where", << >>)
             limit_clause == IF "limit" \in query_params.keys
                             THEN T_LIMIT \o ParamGet(query_params, "limit", T_2000)
                             ELSE << >>
             order_by     == ParamGet(query_params, "order_by", << >>)
             q0 == T_SELECT \o Join(T_comma, fields) \o T_FROM \o query_or_object_name
             q1 == IF where_clause # << >> THEN q0 \o T_WHERE \o where_clause ELSE q0
             q2 == IF order_by # << >> THEN q1 \o T_ORDER_BY \o order_by ELSE q1
         IN  IF limit_clause # << >> THEN q2 \o T_space \o limit_clause ELSE q2

\* The pieces a caller puts a selector together from.
MaxSelectorParts == 2
SelectorParts == {<<"S","e","L","e","C","t"," ">>,
                  <<"s","e","l","e","c","t">>,
                  <<"F","r","o","m"," ">>,
                  <<" ","F","R","O","M">>,
                  <<"L","e","a","d">>,
                  <<"s","e","l">>,
                  <<"e","c","t">>}
RECURSIVE SelectorsOf(_)
SelectorsOf(n) ==
    IF n = 0 THEN {<< >>}
    ELSE SelectorsOf(n - 1)
         \cup {s \o p : s \in SelectorsOf(n - 1), p \in SelectorParts}
Selectors == SelectorsOf(MaxSelectorParts) \ {<< >>}

\* The query_params a caller passes: any subset of the keys, a key given
\* with an empty value or with a value.
QueryParams ==
    {[keys |-> ks, fields |-> <<<<"I","d">>, <<"N","a","m","e">>>>,
      where |-> w, order_by |-> o, limit |-> <<"5">>] :
        ks \in SUBSET {"fields", "where", "order_by", "limit"},
        w \in {<< >>, <<"A",">","0">>},
        o \in {<< >>, <<"N","a","m","e">>}}

\* A call of fetch_data that has not assembled its query yet.
QueryCalls ==
    {[what |-> "call", kind |-> "salesforce", op |-> "fetch_data",
      in |-> [selector |-> s, params |-> p]] :
        s \in Selectors, p \in QueryParams}

\* fetch_data assembles the query of the call.
BuildQuery ==
    /\ built.what = "call"
    /\ built' = [what |-> "query", kind |-> built.kind, op |-> built.op,
                 in |-> built.in,
                 out |-> BuildQuery_sf(built.in.selector, built.in.params)]
    /\ UNCHANGED <<registryVars, limiterVars, connectorVars>>

(***************************************************************************)
(* A call followed request by request                                      *)
(*                                                                         *)
(* The call runs up to its next request and blocks there; it goes on when  *)
(* the vendor answers or the transport gives up.  conn keeps the value the *)
(* call found until the call has ended.                                    *)
(***************************************************************************)
\* What last becomes when the call has read the answers ans.
Progress(op, c, in, ans) ==
    LET x == Run(op, c, in, ans)
    IN  IF x.r.used <= Len(ans) THEN Outcome(op, c, in, ans, x)
        ELSE IF Len(ans) >= MaxRequests THEN Unfinished(op, c, in, ans, x)
        ELSE Waiting(op, c, in, ans, x)

\* The instance between calls: what the call made of it once it has ended.
Settled(o) == IF o.status = "waiting" THEN o.pre ELSE o.conn

\* The caller calls op: it runs to its first request, or to its end if it
\* sends none.
Invoke(op, inputs) ==
    /\ last = NoOutcome
    /\ Defines(conn.kind, op)
    /\ \E in \in inputs :
          /\ last' = Progress(op, conn, in, << >>)
          /\ conn' = Settled(last')
    /\ UNCHANGED <<registryVars, limiterVars, past, normalizerVars>>

InvokeValidateConnection == Invoke("validate_connection", {NoInput})
InvokeRefreshAccessToken == Invoke("refresh_access_token", {NoInput})
InvokeFetchData == Invoke("fetch_data", {in \in FetchInputs : in.params = "good"})
InvokeFetchSchema == Invoke("fetch_schema", {NoInput})
InvokeListObjects == Invoke("list_objects", ListInputs)

\* The vendor answers the pending request, or the connection fails
\* ("exception"); the call runs on to its next request or to its end.
VendorAnswers ==
    /\ last # NoOutcome
    /\ last.status = "waiting"
    /\ \E a \in AnswersFor(PendingRequest(last)) :
          /\ last' = Progress(last.op, last.pre, last.in, Append(last.ans, a))
          /\ conn' = Settled(last')
    /\ UNCHANGED <<registryVars, limiterVars, past, normalizerVars>>

\* The caller takes the result of a call that has ended.
TakeResult ==
    /\ last # NoOutcome
    /\ last.status # "waiting"
    /\ last' = NoOutcome
    /\ UNCHANGED <<conn, past, registryVars, limiterVars, normalizerVars>>

\* Values of the groups of variables a specification leaves alone.
IdleInstances == [i \in Instances |-> Absent]
IdleHistory == [i \in Instances |-> NoHistory]
IdleConnector == None

(***************************************************************************)
(* Specifications                                                          *)
(***************************************************************************)
\* ---- SpecRegistry: the import block of app.py:20-33 either bound every
\* class or failed; then routes call get_connector
InitRegistry ==
    /\ CONNECTORS_AVAILABLE \in BOOLEAN
    /\ lookup = NoLookup
    /\ now = 0 /\ inst = IdleInstances /\ hist = IdleHistory
    /\ conn = IdleConnector /\ last = IdleConnector /\ past = IdleConnector
    /\ built = NoBuilt

DoLookup == Lookup /\ UNCHANGED <<limiterVars, connectorVars, normalizerVars>>

NextRegistry == DoLookup

SpecRegistry == InitRegistry /\ [][NextRegistry]_vars

\* ---- SpecLimiter: one live instance of any kind and configuration
InitLimiter ==
    /\ now = 0
    /\ \E k \in Kinds : \E c \in ConfigsOf(k) :
          inst = [i \in Instances |->
                    IF i = "A" THEN Constructed(k, c, MaxCalls) ELSE Absent]
    /\ hist = IdleHistory
    /\ CONNECTORS_AVAILABLE = TRUE /\ lookup = NoLookup
    /\ conn = IdleConnector /\ last = IdleConnector /\ past = IdleConnector
    /\ built = NoBuilt

CallHandleRateLimits ==
    /\ \E i \in Instances : \E d \in Delays : Enter(i, d)
    /\ UNCHANGED <<registryVars, connectorVars, normalizerVars>>

WakeUp ==
    /\ \E i \in Instances : \E over \in 0..MaxOvershoot : Return(i, over)
    /\ UNCHANGED <<registryVars, connectorVars, normalizerVars>>

NextLimiter == CallHandleRateLimits \/ WakeUp

SpecLimiter == InitLimiter /\ [][NextLimiter]_vars

\* ---- SpecWindow: one Salesforce instance called often enough to use up
\* its window of SalesforceBudget requests and start the next one
MaxWindowCalls == 102

InitWindow ==
    /\ now = 0
    /\ inst = [i \in Instances |->
                 IF i = "A"
                 THEN Constructed("salesforce",
                                  CHOOSE c \in ConfigsOf("salesforce") : TRUE,
                                  MaxWindowCalls)
                 ELSE Absent]
    /\ hist = IdleHistory
    /\ CONNECTORS_AVAILABLE = TRUE /\ lookup = NoLookup
    /\ conn = IdleConnector /\ last = IdleConnector /\ past = IdleConnector
    /\ built = NoBuilt

\* The instance is called again at once, or LongDelay ticks after its last
\* call returned.
CallInWindow ==
    /\ \E d \in {0, LongDelay} : Enter("A", d)
    /\ UNCHANGED <<registryVars, connectorVars, normalizerVars>>

NextWindow == CallInWindow \/ WakeUp

SpecWindow == InitWindow /\ [][NextWindow]_vars

\* ---- SpecInstances: two live instances, of the same or of different
\* kinds, each with its default spacing and a budget of MaxBudget
PairConfig(kind) ==
    IF kind \in {"salesforce", "hubspot"}
    THEN CHOOSE c \in ConfigsOf(kind) : TRUE
    ELSE [min_request_interval |-> DefaultMinInterval(kind),
          window_budget |-> MaxBudget]

InitInstances ==
    /\ now = 0
    /\ \E ka \in Kinds, kb \in Kinds :
          inst = [i \in Instances |->
                    IF i = "A" THEN Constructed(ka, PairConfig(ka), MaxCallsEach)
                    ELSE Constructed(kb, PairConfig(kb), MaxCallsEach)]
    /\ hist = IdleHistory
    /\ CONNECTORS_AVAILABLE = TRUE /\ lookup = NoLookup
    /\ conn = IdleConnector /\ last = IdleConnector /\ past = IdleConnector
    /\ built = NoBuilt

\* Each call comes right after the last event or LongDelay ticks later;
\* a sleep ends on time or MaxOvershoot ticks late.
InstanceCalls ==
    /\ \E i \in Instances : \E d \in {0, LongDelay} : Enter(i, d)
    /\ UNCHANGED <<registryVars, connectorVars, normalizerVars>>

InstanceWakes ==
    /\ \E i \in Instances : \E over \in {0, MaxOvershoot} : Return(i, over)
    /\ UNCHANGED <<registryVars, connectorVars, normalizerVars>>

NextInstances == InstanceCalls \/ InstanceWakes

SpecInstances == InitInstances /\ [][NextInstances]_vars

\* One connector instance of any class, with any credentials, and the
\* calls made on it one after the other, the vendor answering as it likes.
InitConnector ==
    /\ conn \in InitialConnectors
    /\ last = NoOutcome
    /\ past = NoPast
    /\ CONNECTORS_AVAILABLE = TRUE /\ lookup = NoLookup
    /\ now = 0 /\ inst = IdleInstances /\ hist = IdleHistory
    /\ built = NoBuilt

NextConnector ==
    \/ Authenticate
    \/ ValidateConnection
    \/ RefreshAccessToken
    \/ ExchangeCodeForTokens
    \/ FetchData
    \/ FetchSchema
    \/ ListObjects
    \/ ReturnResult

SpecConnector == InitConnector /\ [][NextConnector]_vars

\* ---- SpecTokens: one Salesforce or HubSpot instance, the calls made on
\* it, and what its earlier calls did to its tokens
InitTokens ==
    /\ conn \in {c \in InitialConnectors : c.kind \in {"salesforce", "hubspot"}}
    /\ last = NoOutcome
    /\ past = NoPast
    /\ CONNECTORS_AVAILABLE = TRUE /\ lookup = NoLookup
    /\ now = 0 /\ inst = IdleInstances /\ hist = IdleHistory
    /\ built = NoBuilt

NextTokens ==
    \/ Authenticate
    \/ ValidateConnection
    \/ RefreshAccessToken
    \/ ExchangeCodeForTokens
    \/ FetchData
    \/ FetchSchema
    \/ ListObjects
    \/ ReturnTracked

SpecTokens == InitTokens /\ [][NextTokens]_vars

\* ---- SpecNormalizer: the schema fields and the records the connectors
\* build, one after the other, from whatever the vendor describes
InitNormalizer ==
    /\ built = NoBuilt
    /\ CONNECTORS_AVAILABLE = TRUE /\ lookup = NoLookup
    /\ now = 0 /\ inst = IdleInstances /\ hist = IdleHistory
    /\ conn = IdleConnector /\ last = IdleConnector /\ past = IdleConnector

NextNormalizer == NormalizeField \/ BuildRecord \/ ConvertReport

SpecNormalizer == InitNormalizer /\ [][NextNormalizer]_vars

\* ---- SpecTransport: one Salesforce or HubSpot instance, the connectors
\* that send their requests themselves, and its calls request by request.
\* The code takes each of its own steps; nothing obliges the vendor to
\* answer.
InitTransport ==
    /\ conn \in {c \in InitialConnectors : c.kind \in {"salesforce", "hubspot"}}
    /\ last = NoOutcome
    /\ past = NoPast
    /\ CONNECTORS_AVAILABLE = TRUE /\ lookup = NoLookup
    /\ now = 0 /\ inst = IdleInstances /\ hist = IdleHistory
    /\ built = NoBuilt

NextTransport ==
    \/ InvokeValidateConnection
    \/ InvokeRefreshAccessToken
    \/ InvokeFetchData
    \/ InvokeFetchSchema
    \/ InvokeListObjects
    \/ VendorAnswers
    \/ TakeResult

SpecTransport ==
    InitTransport /\ [][NextTransport]_vars /\ WF_vars(TakeResult)

\* ---- SpecQuery: the query SalesforceConnector.fetch_data assembles for
\* whatever selector and parameters it is called with
InitQuery ==
    /\ built \in QueryCalls
    /\ CONNECTORS_AVAILABLE = TRUE /\ lookup = NoLookup
    /\ now = 0 /\ inst = IdleInstances /\ hist = IdleHistory
    /\ conn = IdleConnector /\ last = IdleConnector /\ past = IdleConnector

NextQuery == BuildQuery

SpecQuery == InitQuery /\ [][NextQuery]_vars

(***************************************************************************)
(* Claims                                                                  *)
(***************************************************************************)
\* s spells k, letter by letter, in some mix of upper and lower case.
IsSpellingOf(s, k) ==
    /\ Len(s) = Len(k)
    /\ \A i \in 1..Len(k) : s[i] = k[i] \/ s[i] = UpperChar(k[i])

\* C1: with the vendor implementations loaded, get_connector of a registered
\* vendor id spelled in any mix of upper and lower case returns that vendor's
\* class, and of any other string raises the unsupported-connector error and
\* returns nothing.
C1_RegisteredIdsResolve ==
    (lookup.done /\ CONNECTORS_AVAILABLE) =>
        /\ \A e \in RegistryLiteral :
              IsSpellingOf(lookup.connector_type, e[1])
                  => lookup.result = Returned(e[2])
        /\ (~ \E k \in RegisteredIds : IsSpellingOf(lookup.connector_type, k))
              => lookup.result = Raised("ValueError", MsgUnsupported)

C1_Witness ==
    /\ lookup.done /\ CONNECTORS_AVAILABLE
    /\ lookup.connector_type = <<"S","a","l","e","s","F","o","r","c","e">>
    /\ lookup.result.value = "SalesforceConnector"

\* C2 as claimed: the error raised when the registry failed to load is of a
\* different kind than the error raised for an unregistered id.
C2_DistinctErrorKinds ==
    (lookup.done /\ ~CONNECTORS_AVAILABLE) =>
        \A s \in OtherStrings :
            get_connector(TRUE, s).exc # lookup.result.exc

\* C2 as amended: both failures are ValueError and differ in their message
\* only; when loading failed every lookup, also of a registered id, raises
\* with the registry-unavailable message.
C2_SameKindDistinctMessage ==
    lookup.done =>
        /\ ~CONNECTORS_AVAILABLE
              => lookup.result = Raised("ValueError", MsgUnavailable)
        /\ (CONNECTORS_AVAILABLE /\ lookup.result.raised)
              => /\ lookup.result = Raised("ValueError", MsgUnsupported)
                 /\ lookup.result.msg # MsgUnavailable

C2_Witness ==
    /\ lookup.done /\ ~CONNECTORS_AVAILABLE
    /\ lookup.connector_type = K_salesforce
    /\ lookup.result.raised /\ lookup.result.msg = MsgUnavailable

\* ---- Claims about the operations of a connector (SpecConnector) ----
Called(op) == last # NoOutcome /\ last.op = op

IsPrefix(p, t) == Len(p) <= Len(t) /\ SubSeq(t, 1, Len(p)) = p

\* What validate_connection does on the instance the call of last found,
\* the vendor answering as it did in that call.
ValidationOfLast == validate_connection(Start(last.pre), last.ans)

\* The requests that ask the vendor for data or schemas.
DataRequests == {"query", "page", "search", "metadata", "values", "schema",
                 "describe", "list"}
Sends(trace, events) == \E k \in 1..Len(trace) : trace[k] \in events

\* C3: in every connector, fetch_data begins with validate_connection, and
\* when validate_connection reports failure fetch_data returns an empty
\* sequence, raises nothing and sends no data request.
C3_FetchDataValidatesFirst ==
    Called("fetch_data") =>
        /\ IsPrefix(ValidationOfLast.r.trace, last.trace)
        /\ ~ValidationOfLast.v.truth =>
              /\ last.status = "returned"
              /\ last.v = VList(<< >>)
              /\ last.trace = ValidationOfLast.r.trace
              /\ ~Sends(last.trace, DataRequests)

\* A fetch_data call whose validation sent a probe, and a refresh after
\* the probe's 401, and failed.
C3_Witness ==
    /\ Called("fetch_data")
    /\ last.trace = <<"probe", "refresh">>
    /\ ~ValidationOfLast.v.truth
    /\ last.v = VList(<< >>)

\* The call of last met a failure it did not recover from: the last answer
\* it read was not a success, or its query parameters are unusable.
EndedInFailure ==
    \/ last.in.params = "bad"
    \/ last.ans # << >> /\ last.ans[Len(last.ans)] \notin {"ok", "ok_extra"}

\* C4 as claimed: fetch_data, fetch_schema and list_objects never raise, and
\* a transport error, a non-success status, a malformed response or bad
\* query parameters make fetch_data and fetch_schema return an empty
\* result.  (Stated for the classes that define the operation.)
C4_NeverRaisesEmptyOnFailure ==
    /\ (Called("fetch_data") \/ Called("fetch_schema")) =>
          /\ last.status # "raised"
          /\ (last.status = "returned" /\ EndedInFailure) => ~last.v.truth
    /\ (Called("list_objects") /\ conn.kind \in {"salesforce", "hubspot"}) =>
          last.status # "raised"

\* C5 as claimed: in every connector, fetch_schema begins with
\* validate_connection and returns an empty schema when it reports failure.
C5_FetchSchemaValidatesFirst ==
    Called("fetch_schema") =>
        /\ IsPrefix(ValidationOfLast.r.trace, last.trace)
        /\ ~ValidationOfLast.v.truth =>
              (last.status = "returned" /\ last.v = VDict({}))

\* C5 as amended: fetch_schema of the Salesforce, HubSpot, GA4 and Google
\* Sheets connectors begins with validate_connection and returns an empty
\* schema, sending no schema request, when it reports failure; fetch_schema
\* of the Google Ads connector answers from its built-in table: it neither
\* validates nor sends anything, and its result is never empty.
C5_FetchSchemaValidatesFirstExceptGoogleAds ==
    Called("fetch_schema") =>
        IF conn.kind = "google_ads"
        THEN /\ last.trace = << >>
             /\ last.status = "returned" /\ last.v.truth
             /\ conn = last.pre
        ELSE /\ IsPrefix(ValidationOfLast.r.trace, last.trace)
             /\ ~ValidationOfLast.v.truth =>
                   /\ last.status = "returned" /\ last.v = VDict({})
                   /\ last.trace = ValidationOfLast.r.trace
                   /\ ~Sends(last.trace, DataRequests)

\* A GA4 fetch_schema whose probe failed.
C5_Witness ==
    /\ Called("fetch_schema")
    /\ conn.kind = "ga4"
    /\ last.trace = <<"probe">>
    /\ ~ValidationOfLast.v.truth
    /\ last.v = VDict({})

\* C6 as claimed: list_objects of every connector returns, without raising,
\* a mapping whose keys are the names of objects.
C6_KeysAreObjectNames ==
    Called("list_objects") =>
        /\ last.status = "returned"
        /\ last.v.kind = "dict"
        /\ last.v.keys \subseteq ObjectsListed(last.in.objects)

\* C6 as amended: list_objects of the Salesforce and HubSpot connectors
\* never raises and returns either an empty mapping or a mapping with one
\* key, the vendor's name, under which the listed objects whose schema was
\* read are mapped to their fields.
C6_VendorKeyedSchemas ==
    (Called("list_objects") /\ conn.kind \in {"salesforce", "hubspot"}
        /\ last.status # "unfinished") =>
        /\ last.status = "returned"
        /\ last.v.kind = "dict"
        /\ last.v.keys \subseteq {conn.kind}
        /\ last.v.objs \subseteq ObjectsListed(last.in.objects)
        /\ last.v.keys = {} => last.v.objs = {}

\* A Salesforce list_objects that described one of the two listed objects.
C6_Witness ==
    /\ Called("list_objects")
    /\ conn.kind = "salesforce"
    /\ last.in.objects = 2
    /\ last.v.keys = {"salesforce"}
    /\ Cardinality(last.v.objs) = 1

\* ---- Claims about handle_rate_limits (SpecLimiter, SpecInstances) ----
Live(i) == inst[i].kind # "none"

\* C7 as claimed: the instants at which two consecutive handle_rate_limits
\* calls of an instance return are at least its minimum interval apart.
C7_MinimumSpacing ==
    \A i \in Instances :
        (Live(i) /\ hist[i].prev_release # NoTime)
            => hist[i].last_release - hist[i].prev_release >= MinIntervalOf(i)

\* C8 as claimed: in every connector with a budget b the first b calls of a
\* window do not sleep for the budget, the (b+1)-th does, and the counter is
\* zero after it.
C8_WindowBudget ==
    \A i \in Instances :
        (Live(i) /\ HasBudget(inst[i].kind) /\ hist[i].nth > 0) =>
            /\ hist[i].nth <= BudgetOf(i) => ~hist[i].blocked
            /\ hist[i].nth = BudgetOf(i) + 1
                  => (hist[i].blocked /\ inst[i].lim.request_count = 0)

\* C9 as claimed: every request an operation sends to the vendor comes
\* right after a handle_rate_limits call of its own.
C9_EveryRequestRateLimited ==
    last # NoOutcome =>
        \A k \in 1..Len(last.trace) :
            ~Local(last.trace[k]) => (k > 1 /\ last.trace[k - 1] = "hrl")

\* C10: the limiter fields of an instance, and the instant a sleeping call
\* of it wakes up, are those it would have if no other instance existed:
\* another instance's calls neither change them nor delay it.
C10_LimiterStatePerInstance ==
    \A i \in Instances :
        /\ inst[i].lim = hist[i].solo
        /\ inst[i].pc = "sleeping" => inst[i].wake = hist[i].solo_wake

C10_Witness ==
    /\ inst["A"].kind = inst["B"].kind
    /\ inst["A"].pc = "sleeping"
    /\ hist["B"].nth > 0
    /\ hist["B"].last_release > inst["A"].entered
    /\ inst["B"].lim # inst["A"].lim

\* ---- Claims about pagination (SpecConnector) ----
\* The connectors whose fetch_data follows a cursor.
Paginated == conn.kind \in {"salesforce", "hubspot"}

\* The answers the call read, and the events it went through, after those
\* of its validate_connection.
DataAnswers == SubSeq(last.ans, ValidationOfLast.r.used + 1, Len(last.ans))
DataTrace ==
    SubSeq(last.trace, Len(ValidationOfLast.r.trace) + 1, Len(last.trace))

\* The vendor answered every page, the last one without a cursor.
PagesThenNoCursor ==
    /\ DataAnswers # << >>
    /\ DataAnswers[Len(DataAnswers)] = "ok"
    /\ \A j \in 1..(Len(DataAnswers) - 1) : DataAnswers[j] = "ok_extra"

\* Where in the vendor's answer each record comes from.
Origins(rows) == [i \in 1..Len(rows) |-> <<rows[i].page, rows[i].idx>>]
\* k pages of n records, page after page.
InPageOrder(k, n) ==
    [j \in 1..(k * n) |-> <<((j - 1) \div n) + 1, ((j - 1) % n) + 1>>]

\* C11: when the vendor answers fetch_data of the Salesforce or HubSpot
\* connector with k successful pages of n records each, the last without a
\* cursor, fetch_data returns exactly the k*n records, in page order.
C11_PaginationComplete ==
    (Called("fetch_data") /\ Paginated /\ ValidationOfLast.v.truth
        /\ PagesThenNoCursor) =>
        /\ last.status = "returned"
        /\ Len(last.v.rows) = Len(DataAnswers) * last.in.n
        /\ Origins(last.v.rows) = InPageOrder(Len(DataAnswers), last.in.n)

\* A HubSpot fetch_data over three pages of two records.
C11_Witness ==
    /\ Called("fetch_data")
    /\ conn.kind = "hubspot"
    /\ DataAnswers = <<"ok_extra", "ok_extra", "ok">>
    /\ last.in.n = 2
    /\ Len(last.v.rows) = 6

\* C12 as claimed: fetch_data of the Salesforce or HubSpot connector stops
\* by itself when the vendor sends a cursor with every page: no call is still
\* asking for pages after MaxRequests requests.
C12_PaginationCapped ==
    (Called("fetch_data") /\ Paginated) => last.status # "unfinished"

\* C13: in the pagination loop every page request comes right after a
\* handle_rate_limits call of its own; a further page is asked for only
\* after a page that carried a cursor, and is asked for after every such
\* page; the records returned are those of the pages fetched, in the order
\* the pages were fetched.
C13_PaginationStepOrder ==
    (Called("fetch_data") /\ Paginated /\ ValidationOfLast.v.truth) =>
        /\ Len(DataTrace) = 2 * Len(DataAnswers)
        /\ \A j \in 1..Len(DataAnswers) :
              /\ DataTrace[2 * j - 1] = "hrl"
              /\ DataTrace[2 * j] \in {"query", "page", "search"}
              /\ j < Len(DataAnswers) => DataAnswers[j] = "ok_extra"
        /\ (DataAnswers # << >> /\ DataAnswers[Len(DataAnswers)] = "ok_extra")
              => last.status = "unfinished"
        /\ \A i \in 1..Len(last.v.rows) :
              /\ last.v.rows[i].page \in 1..Len(DataAnswers)
              /\ i > 1 => last.v.rows[i - 1].page <= last.v.rows[i].page

\* A HubSpot fetch_data over two pages.
C13_Witness ==
    /\ Called("fetch_data")
    /\ conn.kind = "hubspot"
    /\ DataAnswers = <<"ok_extra", "ok">>
    /\ DataTrace = <<"hrl", "search", "hrl", "search">>
    /\ last.status = "returned"
    /\ Len(last.v.rows) = 2 * last.in.n

\* C14 as claimed: every record fetch_data of the Salesforce or HubSpot
\* connector returns carries the metadata key _extracted_at.
C14_RecordsCarryExtractedAt ==
    (Called("fetch_data") /\ Paginated /\ last.status = "returned") =>
        \A i \in 1..Len(last.v.rows) : "_extracted_at" \in last.v.rows[i].meta

\* ---- Claims about the tokens of an instance (SpecTokens) ----
\* C15 as claimed: once a refresh attempt of an instance has failed, no later
\* validate_connection, fetch_data, fetch_schema or list_objects call on it
\* sends a refresh request, and validate_connection returns false.
C15_RefreshFailedIsTerminal ==
    (past.failed_refresh /\ last # NoOutcome
        /\ last.op \in {"validate_connection", "fetch_data", "fetch_schema",
                        "list_objects"}) =>
        /\ ~Sends(last.trace, {"refresh"})
        /\ last.op = "validate_connection" => ~last.v.truth

\* The answers the refresh requests of the call of last got, in order.
RefreshAnswers ==
    LET answered == SelectSeq(last.trace, Answered)
        idx == {k \in 1..Len(answered) : answered[k] = "refresh"}
    IN  [j \in 1..Len(last.sent) |->
            last.ans[CHOOSE k \in idx : Cardinality({i \in idx : i <= k}) = j]]

\* C16: a refresh_access_token or validate_connection call whose refresh
\* request succeeded leaves the instance with the access token the vendor
\* returned, in its Authorization header too; its refresh token is the new
\* one if the answer carried one and is unchanged if not.  Every refresh
\* request of every call carries the refresh token the instance holds at
\* that moment: never one that an earlier answer, of this call or of an
\* earlier call, has replaced.
C16_RefreshReplacesTokens ==
    last # NoOutcome =>
        /\ (last.op \in {"refresh_access_token", "validate_connection"}
              /\ Len(last.sent) = 1
              /\ RefreshAnswers[1] \in {"ok", "ok_extra"}) =>
              /\ last.status = "returned" /\ last.v.truth
              /\ conn.access_token = NextAccess(last.pre.access_token)
              /\ conn.access_token # None
              /\ conn.header = conn.access_token
              /\ RefreshAnswers[1] = "ok_extra" =>
                    conn.refresh_token = NextRefresh(last.pre.refresh_token)
              /\ RefreshAnswers[1] = "ok" =>
                    conn.refresh_token = last.pre.refresh_token
        /\ \A j \in 1..Len(last.sent) :
              /\ last.sent[j] \notin past.retired
              /\ j = 1 => last.sent[j] = last.pre.refresh_token
              /\ j > 1 => last.sent[j] =
                            IF RefreshAnswers[j - 1] = "ok_extra"
                            THEN NextRefresh(last.sent[j - 1])
                            ELSE last.sent[j - 1]

\* A validate_connection whose refresh request carried the token an earlier
\* call had received in place of the first one, and got a new one again.
C16_Witness ==
    /\ Called("validate_connection")
    /\ "rt0" \in past.retired
    /\ last.ans = <<"unauthorized", "ok_extra">>
    /\ last.sent = <<"rt1">>
    /\ conn.refresh_token = "rt2"
    /\ conn.access_token = conn.header

\* ---- Claims about authenticate and validate_connection (SpecConnector) ----
\* The instance the call found is as __init__ leaves an instance.
AsConstructed == last.pre \in InitialConnectors

\* The requests that hand credentials to the vendor to obtain tokens.
CredentialRequests == {"auth", "exchange", "refresh"}

\* C17: an instance constructed with an access token holds it, the Salesforce
\* and HubSpot ones in the Authorization header too, and its first
\* validate_connection sends no credential request before its probe; a
\* Salesforce instance constructed with username and password holds no
\* access token, and a successful authenticate() of it records the access
\* token the vendor returned, while a failed one leaves it without.
C17_InitialAuthState ==
    (last # NoOutcome /\ AsConstructed) =>
        /\ last.pre.auth_type = "password" =>
              (last.pre.access_token = None /\ last.pre.header = None)
        /\ (last.pre.access_token # None /\ last.op = "validate_connection") =>
              /\ last.trace # << >>
              /\ last.trace[1] \notin CredentialRequests
              /\ Paginated => /\ last.pre.header = last.pre.access_token
                              /\ last.trace[1] = "probe"
        /\ (last.pre.auth_type = "password" /\ last.op = "authenticate") =>
              /\ last.status = "returned"
              /\ last.trace = <<"auth">>
              /\ last.v.truth <=> last.ans = <<"ok">>
              /\ last.v.truth => /\ conn.access_token = NextAccess(None)
                                 /\ conn.header = conn.access_token
              /\ ~last.v.truth => conn = last.pre

\* A successful authenticate() of an instance built from username and
\* password.
C17_Witness ==
    /\ Called("authenticate")
    /\ AsConstructed
    /\ last.pre.auth_type = "password" /\ last.pre.access_token = None
    /\ last.v.truth
    /\ conn.access_token = "at1" /\ conn.header = "at1"

\* The instance has nothing to send a probe with: no access token
\* (Salesforce, HubSpot), no client or service object (GA4, Google Ads,
\* Google Sheets).
NoSession(c) ==
    IF c.kind \in {"salesforce", "hubspot"} THEN c.access_token = None
    ELSE ~c.client

Count(trace, ev) == Cardinality({k \in 1..Len(trace) : trace[k] = ev})

\* C19 as claimed: validate_connection of an instance with a session sends
\* exactly one probe and, when the probe is answered 401, makes one attempt
\* to get a new token (a refresh request if it holds a refresh token and
\* the client's id and secret, the password grant for username and
\* password) and returns true exactly when that request succeeded.
C19_ProbeOnceRefreshOnce ==
    (Called("validate_connection") /\ ~NoSession(last.pre)) =>
        /\ Count(last.trace, "probe") = 1
        /\ last.ans[1] = "unauthorized" =>
              /\ Count(last.trace, "refresh") + Count(last.trace, "auth") <= 1
              /\ (last.pre.refresh_token # None /\ last.pre.auth_type # "password"
                    /\ last.pre.client_keys)
                    => Count(last.trace, "refresh") = 1
              /\ last.v.truth <=>
                    (Len(last.ans) = 2 /\ last.ans[2] \in {"ok", "ok_extra"})

\* C20: when the probe of validate_connection is answered with a status
\* other than 200 and 401, or the transport raises, validate_connection
\* returns False, sends nothing after the probe, and leaves the access
\* token, the refresh token and the Authorization header as they were.
C20_OtherProbeFailureChangesNothing ==
    (Called("validate_connection") /\ last.trace # << >>
        /\ last.trace[1] = "probe" /\ last.ans[1] \in {"error", "exception"}) =>
        /\ last.status = "returned"
        /\ last.v = VBool(FALSE)
        /\ last.trace = <<"probe">>
        /\ ~Sends(last.trace, CredentialRequests)
        /\ conn.access_token = last.pre.access_token
        /\ conn.refresh_token = last.pre.refresh_token
        /\ conn.header = last.pre.header
        /\ conn = last.pre

\* A HubSpot validate_connection whose probe timed out, on an instance that
\* holds a refresh token.
C20_Witness ==
    /\ Called("validate_connection")
    /\ conn.kind = "hubspot"
    /\ last.pre.refresh_token = "rt0"
    /\ last.ans = <<"exception">>
    /\ last.v = VBool(FALSE)
    /\ conn = last.pre

\* ---- Claims about what the token operations return (SpecConnector) ----
\* C21 as claimed: authenticate() and validate_connection() return a
\* boolean, True or False, on every path of every connector, never a token
\* mapping or another value.
C21_ReturnsBoolean ==
    (last # NoOutcome /\ last.op \in {"authenticate", "validate_connection"}
        /\ last.status # "unfinished") =>
        /\ last.status = "returned"
        /\ last.v.kind = "bool"

\* The last request of the call of last was not answered with success.
Rejected == last.ans # << >> /\ last.ans[Len(last.ans)] \notin {"ok", "ok_extra"}

\* The instance c as far as it does not depend on which tokens the vendor
\* issued: whether it holds an access token and a refresh token, and
\* whether the Authorization header carries the access token.
TokenShape(c) ==
    [c EXCEPT !.access_token = IF @ = None THEN "none" ELSE "held",
              !.refresh_token = IF @ = None THEN "none" ELSE "held",
              !.header = IF @ = None THEN "none"
                         ELSE IF @ = c.access_token THEN "current" ELSE "stale"]

\* C22: authenticate() never raises; when its last request is rejected or
\* the transport fails it returns False and leaves the instance, access
\* token and Authorization header included, as it was; and a second
\* authenticate() that gets the same answers reads all of them, returns the
\* same value and leaves the instance as the first one left it (with the
\* tokens the vendor issued in place of those of the first call).
C22_AuthenticateNeverRaises ==
    Called("authenticate") =>
        LET again == authenticate(Start(conn), last.ans)
        IN  /\ last.status = "returned"
            /\ Rejected => /\ last.v = VBool(FALSE)
                           /\ conn.access_token = last.pre.access_token
                           /\ conn.instance_url = last.pre.instance_url
                           /\ conn.header = last.pre.header
                           /\ conn = last.pre
            /\ ~last.v.truth => conn = last.pre
            /\ again.exc = None
            /\ again.r.used = Len(last.ans)
            /\ again.r.trace = last.trace
            /\ again.v = last.v
            /\ TokenShape(again.r.conn) = TokenShape(conn)
            /\ ~last.v.truth => again.r.conn = conn

\* A password grant the vendor rejected: authenticate() returned False and
\* the instance still has no access token.
C22_Witness ==
    /\ Called("authenticate")
    /\ last.pre.auth_type = "password"
    /\ last.ans = <<"error">>
    /\ last.v = VBool(FALSE)
    /\ conn = last.pre /\ conn.access_token = None /\ conn.header = None
    /\ conn.instance_url = None

\* C23: refresh_access_token of an instance that holds no refresh token
\* signals failure, by raising (Salesforce) or by returning False (HubSpot),
\* sends no request and leaves the access token and the Authorization
\* header as they were.
C23_RefreshWithoutTokenFails ==
    (Called("refresh_access_token") /\ last.pre.refresh_token = None) =>
        /\ \/ last.status = "raised" /\ last.pre.kind = "salesforce"
           \/ last.status = "returned" /\ last.v = VBool(FALSE)
                 /\ last.pre.kind = "hubspot"
        /\ last.trace = << >> /\ last.sent = << >> /\ last.ans = << >>
        /\ conn.access_token = last.pre.access_token
        /\ conn.header = last.pre.header
        /\ conn = last.pre

\* refresh_access_token raised on a Salesforce instance built with an access
\* token and no refresh token.
C23_Witness ==
    /\ Called("refresh_access_token")
    /\ conn.kind = "salesforce"
    /\ last.pre.access_token = "at0" /\ last.pre.refresh_token = None
    /\ last.status = "raised" /\ last.exc = "Exception"
    /\ last.trace = << >>
    /\ conn = last.pre

\* C24 as claimed: a refresh_access_token whose request the vendor answered
\* with tokens returns the new token set: a mapping with the new access
\* token and, when the answer carried a new refresh token, that one too.
C24_RefreshReturnsTokenSet ==
    (Called("refresh_access_token") /\ last.ans # << >>
        /\ last.ans[1] \in {"ok", "ok_extra"}) =>
        /\ last.status = "returned"
        /\ last.v.kind = "dict"
        /\ "access_token" \in last.v.keys
        /\ last.ans[1] = "ok_extra" => "refresh_token" \in last.v.keys

\* C25 as claimed: exchange_code_for_tokens returns the token set the vendor
\* answered with and leaves the access token, the refresh token and the
\* Authorization header of the instance it was called on as they were.
C25_ExchangeLeavesInstanceAlone ==
    Called("exchange_code_for_tokens") =>
        /\ last.status = "returned" =>
              /\ last.v.kind = "dict"
              /\ {"access_token", "refresh_token"} \subseteq last.v.keys
        /\ conn.access_token = last.pre.access_token
        /\ conn.refresh_token = last.pre.refresh_token
        /\ conn.header = last.pre.header

\* ---- Claims about schema fields and records (SpecNormalizer) ----
\* The closed vocabulary of data types.
DataTypes == {"string", "integer", "number", "date", "boolean"}

\* The data type a schema field states: dataType in the fields of
\* list_objects, type in those of fetch_schema.
DataTypeOf(f) ==
    IF "dataType" \in DOMAIN f THEN f.dataType
    ELSE IF "type" \in DOMAIN f THEN f.type ELSE Missing

\* C26 as claimed: the data type of every schema field list_objects and
\* fetch_schema return is one of string, integer, number, date, boolean; a
\* vendor type without a mapping comes out as string.
C26_DataTypesInVocabulary ==
    built.what = "field" => DataTypeOf(built.out) \in DataTypes

\* The nullable flag a schema field states, under the key nullable or the
\* vendor's own nillable.
NullableOf(f) ==
    IF "nullable" \in DOMAIN f THEN f.nullable
    ELSE IF "nillable" \in DOMAIN f THEN f.nillable ELSE Missing

\* The flag the vendor put on the field it described.
VendorFlagOf(d) == IF "nillable" \in DOMAIN d THEN d.nillable ELSE Missing

\* C27 as claimed: every schema field carries a nullable flag, which is
\* false when the vendor marked the field non-nullable and true otherwise.
C27_FieldsCarryNullable ==
    built.what = "field" =>
        NullableOf(built.out) =
            IF VendorFlagOf(built.in) = "False" THEN "False" ELSE "True"

\* C29 as claimed: in every record fetch_data returns, each name the vendor
\* used for a column, property or dimension still holds the vendor's value:
\* no metadata key has taken its place.
C29_MetadataNeverOverwrites ==
    built.what = "record" =>
        \A n \in built.in : n \in DOMAIN built.out /\ built.out[n] = "vendor"

\* ---- Claims about discovery (SpecConnector) ----
\* The requests of the call of last that follow its listing request, and
\* their answers.
AfterListing ==
    LET answered == SelectSeq(last.trace, Answered)
        k == CHOOSE j \in 1..Len(answered) : answered[j] = "list"
    IN  [events  |-> SubSeq(answered, k + 1, Len(answered)),
         answers |-> SubSeq(last.ans, k + 1, Len(answered))]

\* The objects whose describe request was answered with a schema, read off
\* the requests sent for object i and the ones after it: each object has a
\* probe, after a 401 possibly a refresh or password grant, and a describe
\* request if the connection was found valid.
RECURSIVE DescribedFrom(_, _, _)
DescribedFrom(events, answers, i) ==
    IF events = << >> THEN [ok |-> {}, next |-> i]
    ELSE LET renewed == /\ answers[1] = "unauthorized" /\ Len(events) >= 2
                        /\ events[2] \in {"refresh", "auth"}
             valid   == \/ answers[1] = "ok"
                        \/ renewed /\ answers[2] \in {"ok", "ok_extra"}
             used    == (IF renewed THEN 2 ELSE 1) + (IF valid THEN 1 ELSE 0)
             rest    == DescribedFrom(SubSeq(events, used + 1, Len(events)),
                                      SubSeq(answers, used + 1, Len(answers)), i + 1)
         IN  [ok   |-> rest.ok \cup
                       (IF valid /\ answers[used] = "ok" THEN {i} ELSE {}),
              next |-> rest.next]

\* C28: when the listing request of list_objects succeeded, the call returns
\* the vendor's key with an entry for exactly the objects whose schema fetch
\* succeeded, and every object listed was tried, whichever of them failed.
\* HubSpot's listing answer holds the schemas of all objects: there is no
\* fetch per object and every object listed has an entry.
C28_FailedObjectsAreSkipped ==
    (Called("list_objects") /\ Paginated /\ last.status # "unfinished"
        /\ Sends(last.trace, {"list"})
        /\ last.ans[Len(SelectSeq(last.trace, Answered))
                    - Len(AfterListing.events)] = "ok") =>
        /\ last.status = "returned"
        /\ last.v.keys = {last.pre.kind}
        /\ last.v.objs \subseteq ObjectsListed(last.in.objects)
        /\ last.pre.kind = "hubspot" =>
              /\ last.v.objs = ObjectsListed(last.in.objects)
              /\ AfterListing.events = << >>
        /\ last.pre.kind = "salesforce" =>
              LET d == DescribedFrom(AfterListing.events, AfterListing.answers, 1)
              IN  /\ d.next = last.in.objects + 1
                  /\ Count(AfterListing.events, "describe") >= Cardinality(d.ok)
                  /\ last.v.objs = {ObjectName(i) : i \in d.ok}

\* A Salesforce discovery of two objects: the describe of the first one
\* failed and the second one has its entry.
C28_Witness ==
    /\ Called("list_objects")
    /\ conn.kind = "salesforce"
    /\ last.in.objects = 2
    /\ last.ans = <<"ok", "ok", "ok", "error", "ok", "ok">>
    /\ last.status = "returned"
    /\ last.v.keys = {"salesforce"}
    /\ last.v.objs = {ObjectName(2)}

\* ---- Claims about the transport (SpecTransport) ----
\* The call of last is blocked in a request the vendor has not answered.
Blocked == last # NoOutcome /\ last.status = "waiting"

\* C30 as claimed: a call blocked in a request gets out of it, whether or
\* not the vendor ever answers: the request times out and the operation
\* returns.
C30_BlockedCallsReturn == Blocked ~> ~Blocked

\* ---- Claims about logging and the token state (SpecConnector) ----
\* C31 as claimed: no call of any operation writes an access token, a
\* refresh token or a client secret to the log in full.
C31_NoSecretLogged ==
    last # NoOutcome => last.logged = {}

\* The credential requests of the call of last that the vendor answered
\* with tokens.
Renewals ==
    LET answered == SelectSeq(last.trace, Answered)
    IN  {k \in 1..Len(answered) :
            answered[k] \in CredentialRequests /\ last.ans[k] \in {"ok", "ok_extra"}}

IsRawQuery(selector) ==
    /\ \E i \in 1..Len(selector) :
          /\ i + Len(T_select) - 1 <= Len(selector)
          /\ Lower(SubSeq(selector, i, i + Len(T_select) - 1)) = T_select
    /\ \E i \in 1..Len(selector) :
          /\ i + Len(T_from) - 1 <= Len(selector)
          /\ Lower(SubSeq(selector, i, i + Len(T_from) - 1)) = T_from

\* The field list of a built query.
FieldsAsked(params) ==
    IF "fields" \in params.keys THEN params.fields ELSE DefaultFields

\* C33: Salesforce fetch_data sends its selector verbatim exactly when the
\* selector contains both "select" and "from" as substrings in any case;
\* otherwise the query is SELECT <fields> FROM <selector> followed, in this
\* order, by a WHERE, an ORDER BY and a LIMIT clause, each there only when
\* its query parameter is given, LIMIT exactly when the key limit is present.
C33_QueryRawOrBuilt ==
    built.what = "query" =>
        LET s == built.in.selector
            p == built.in.params
            head == T_SELECT \o Join(T_comma, FieldsAsked(p)) \o T_FROM \o s
        IN  /\ IsRawQuery(s) => built.out = s
            /\ ~IsRawQuery(s) =>
                  \E W \in {<< >>, T_WHERE \o p.where} :
                  \E O \in {<< >>, T_ORDER_BY \o p.order_by} :
                  \E L \in {<< >>, T_space \o T_LIMIT \o p.limit} :
                      /\ built.out = head \o W \o O \o L
                      /\ W # << >> => "where" \in p.keys
                      /\ O # << >> => "order_by" \in p.keys
                      /\ L # << >> <=> "limit" \in p.keys

\* A selector that holds only one of the keywords is built into a query
\* with all three clauses.
C33_Witness ==
    /\ built.what = "query"
    /\ Contains(built.in.selector, T_select)
    /\ ~IsRawQuery(built.in.selector)
    /\ built.in.params.keys = {"fields", "where", "order_by", "limit"}
    /\ Contains(built.out, T_WHERE \o built.in.params.where \o T_ORDER_BY)
    /\ Contains(built.out, T_ORDER_BY \o built.in.params.order_by \o T_space \o T_LIMIT)


\* C34: for GA4 and Google Ads, fetch_data with a report or object type
\* outside the supported set returns an empty sequence and sends no report
\* or query request to the vendor.
C34_UnsupportedTypeSendsNothing ==
    (Called("fetch_data") /\ last.pre.kind \in {"ga4", "google_ads"}
        /\ last.in.selector = "unsupported") =>
        /\ last.status = "returned"
        /\ last.v = VList(<< >>)
        /\ ~Sends(last.trace, {"query"})
        /\ last.trace = ValidationOfLast.r.trace

\* GA4 fetch_data for an unknown report type on a connection that validates.
C34_Witness ==
    /\ Called("fetch_data")
    /\ last.pre.kind = "ga4"
    /\ last.pre.client
    /\ last.in.selector = "unsupported"
    /\ last.in.params = "good"
    /\ last.ans = <<"ok">>
    /\ last.trace = <<"probe">>
    /\ last.v = VList(<< >>)


\* C35: every record returned by GA4 fetch_data(report_type, ...) carries
\* _report_type equal to the report_type the caller asked for, for each of
\* standard, realtime, cohort and pivot.
C35_RecordsCarryReportType ==
    (built.what = "report" /\ built.in.report_type \in ReportTypes) =>
        \A i \in 1..Len(built.out) :
            built.out[i]._report_type = built.in.report_type


\* ---- Claims about failing pages (SpecConnector) ----
\* A status other than 200, and any failure of a request.
Non200 == {"unauthorized", "error"}
FailedAnswers == {"unauthorized", "error", "exception", "malformed"}

\* C36: Salesforce fetch_data keeps what it has when a later page fails:
\* when the first page is fetched and page j > 1 is answered with a status
\* other than 200, the result is exactly the records of pages 1..j-1, no
\* page after j is requested, and the result is not empty.
C36_LaterPageFailureKeepsRecords ==
    (Called("fetch_data") /\ last.pre.kind = "salesforce"
        /\ ValidationOfLast.v.truth /\ last.status # "unfinished") =>
        \A j \in 2..Len(DataAnswers) :
            DataAnswers[j] \in Non200 =>
                /\ last.status = "returned"
                /\ j = Len(DataAnswers)
                /\ Count(DataTrace, "query") + Count(DataTrace, "page") = j
                /\ Origins(last.v.rows) = InPageOrder(j - 1, last.in.n)
                /\ last.v.rows # << >>

\* The third page of a Salesforce query is refused.
C36_Witness ==
    /\ Called("fetch_data")
    /\ last.pre.kind = "salesforce"
    /\ DataAnswers = <<"ok_extra", "ok_extra", "error">>
    /\ last.in.n = 2
    /\ Origins(last.v.rows) = <<<<1, 1>>, <<1, 2>>, <<2, 1>>, <<2, 2>>>>

\* C37: HubSpot fetch_data is all-or-nothing: when any page request fails,
\* by an error status or a transport error, the result is an empty sequence,
\* whatever pages were fetched before; it returns records only when every
\* page up to the one without a cursor succeeded.
C37_AllOrNothing ==
    (Called("fetch_data") /\ last.pre.kind = "hubspot"
        /\ ValidationOfLast.v.truth /\ last.status # "unfinished") =>
        /\ last.status = "returned"
        /\ (\E j \in 1..Len(DataAnswers) : DataAnswers[j] \in FailedAnswers)
              => last.v = VList(<< >>)
        /\ last.v.rows # << >> => PagesThenNoCursor

\* Two pages are fetched, the third request fails in the transport.
C37_Witness ==
    /\ Called("fetch_data")
    /\ last.pre.kind = "hubspot"
    /\ DataAnswers = <<"ok_extra", "ok_extra", "exception">>
    /\ last.in.n = 2
    /\ last.v = VList(<< >>)


\* ---- Claims about the Salesforce window (SpecWindow) ----
\* Instance i enters handle_rate_limits in this step.
Enters(i) == inst[i].pc = "idle" /\ inst'[i].left < inst[i].left
\* The call instance i is sleeping in returns in this step.
Wakes(i) == inst[i].pc = "sleeping" /\ inst'[i].pc = "idle"

\* C38: the request_count of a Salesforce instance stays within 0..100
\* whatever handle_rate_limits calls are made; a call made with
\* request_count = 100 sleeps for the window, sets request_count to 0 and
\* returns without counting itself and without updating last_request_time.
C38_WindowCounterBounded ==
    /\ [](\A i \in Instances :
            inst[i].kind = "salesforce"
                => inst[i].lim.request_count \in 0..SalesforceBudget)
    /\ [][\A i \in Instances :
            (inst[i].kind = "salesforce"
                /\ inst[i].lim.request_count = SalesforceBudget) =>
                /\ Enters(i) =>
                      /\ inst'[i].pc = "sleeping"
                      /\ inst'[i].wake = now' + SalesforceWindowSleep
                      /\ inst'[i].lim = inst[i].lim
                /\ Wakes(i) =>
                      /\ now' >= inst[i].entered + SalesforceWindowSleep
                      /\ inst'[i].lim.request_count = 0
                      /\ inst'[i].lim.last_request_time
                            = inst[i].lim.last_request_time]_vars

\* The 101st call of the window has slept and returned.
C38_Witness ==
    /\ inst["A"].kind = "salesforce"
    /\ inst["A"].pc = "idle"
    /\ hist["A"].nth = SalesforceBudget + 1
    /\ hist["A"].blocked
    /\ inst["A"].lim.request_count = 0
    /\ inst["A"].lim.last_request_time # NoTime
    /\ inst["A"].lim.last_request_time + SalesforceWindowSleep <= now


\* ---- Claims about the Authorization header (SpecConnector) ----
TokenOperations == {"authenticate", "refresh_access_token", "exchange_code_for_tokens"}

\* C39 as claimed: in the Salesforce and HubSpot connectors, after
\* construction and after every authenticate, refresh_access_token and
\* exchange_code_for_tokens call, successful or not, the session has an
\* Authorization header iff the instance holds an access token, and the
\* header then carries that access token.
C39_HeaderFollowsAccessToken ==
    (/\ conn.kind \in {"salesforce", "hubspot"}
     /\ \/ last = NoOutcome /\ conn \in InitialConnectors
        \/ last # NoOutcome /\ last.op \in TokenOperations
              /\ last.status \in {"returned", "raised"}) =>
        conn.header = conn.access_token


\* ---- Claims about authenticate calling validate_connection and back ----
\* C40: a top-level authenticate() or validate_connection() of a Salesforce
\* or HubSpot instance comes to an end for every credential shape and every
\* vendor answer: it returns, each of the two methods is entered at most
\* twice in it, and at most one refresh or credential-exchange request is
\* sent.
C40_MutualCallsTerminate ==
    (last # NoOutcome /\ last.pre.kind \in {"salesforce", "hubspot"}
        /\ last.op \in {"authenticate", "validate_connection"}) =>
        /\ last.status = "returned"
        /\ last.calls.authenticate <= 2
        /\ last.calls.validate_connection <= 2
        /\ Count(last.trace, "auth") + Count(last.trace, "refresh")
              + Count(last.trace, "exchange") <= 1

\* authenticate() of a Salesforce instance built with tokens: it goes to
\* validate_connection, whose probe is refused and which sends one refresh.
C40_Witness ==
    /\ Called("authenticate")
    /\ last.pre.kind = "salesforce"
    /\ last.pre.auth_type = "token"
    /\ last.calls = [authenticate |-> 1, validate_connection |-> 1]
    /\ last.trace = <<"probe", "refresh">>
    /\ last.status = "returned"

=============================================================================
